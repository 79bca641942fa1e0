------------------------------ MODULE Accounts ------------------------------
(***************************************************************************)
(* Who an account belongs to: the accounts of Firebase Auth, the profiles  *)
(* of users, the sign-in by a phone whose code was right                   *)
(* (phoneAuth.service.js) and the set-up of the site's admin login         *)
(* (admin.service.js).  Every step between two awaits is an action;        *)
(* Firebase Auth is external and keeps phones and e-mails unique.          *)
(***************************************************************************)
EXTENDS Integers, FiniteSets

CONSTANTS
    Uids,           \* uids of accounts and profiles
    Root,           \* ROOT_ADMIN_UID
    Phones,
    Reqs,           \* requests of the server
    None,
    MaxOutside      \* bound: sign-ups, phones attached, changes of profiles

VARIABLES
    auth,           \* Firebase Auth: each uid's account, or None
    profile,        \* each uid's users document, or None
    req,            \* the requests
    moved,          \* what others did to an account while requests ran
    outside         \* how many steps of the outside world were taken

vars == <<auth, profile, req, moved, outside>>

Roles == {"devotee", "folks_head", "admin"}
ELEVATED_ROLES == {"folks_head", "admin"}

\* login: how the account signs in besides its phone; session: what is left of those
\* that began before the last set-up, an ID token that the server still accepts
\* (middlewares/auth.js asks for no check of revocation), or a live one, which has its
\* tokens renewed.
AuthRecord == [phone : Phones \cup {None}, login : {"none", "other", "adminEmail"},
               password : {"own", "team"}, session : {"none", "token", "live"}]
Profile == [role : Roles, phone : Phones \cup {None}]

ASSUME NoneAssumption == None \notin AuthRecord \cup Profile \cup Phones \cup Roles

\* phone and uid: what a sign-in is about; caller, promote, claimed, hadPhone: what
\* a set-up has decided.
Idle == [pc |-> "idle", phone |-> None, uid |-> None, caller |-> None,
         promote |-> FALSE, claimed |-> FALSE, hadPhone |-> FALSE]

Init ==
    /\ auth = [u \in Uids |-> None]
    /\ profile = [u \in Uids |-> None]
    /\ req = [r \in Reqs |-> Idle]
    /\ moved = {}
    /\ outside = 0

-----------------------------------------------------------------------------
(* Firebase Auth *)

PhoneOwner(p) == {u \in Uids : auth[u] # None /\ auth[u].phone = p}
AdminAccount == {u \in Uids : auth[u] # None /\ auth[u].login = "adminEmail"}
RoleOf(u) == IF profile[u] = None THEN None ELSE profile[u].role

\* A uid nobody has.
Unused == {u \in Uids : auth[u] = None /\ profile[u] = None}
NewUid == Unused \ {Root}

Account(phone, login, password) ==
    [phone |-> phone, login |-> login, password |-> password,
     session |-> IF password = "own" THEN "live" ELSE "none"]

Goto(r, pc) == req' = [req EXCEPT ![r].pc = pc] /\ UNCHANGED moved
Found(r, u, pc) == req' = [req EXCEPT ![r].uid = u, ![r].pc = pc] /\ UNCHANGED moved

Busy == {r \in Reqs : req[r].pc # "idle"}
Changed(u, what) == moved' = IF Busy = {} THEN {} ELSE moved \cup {<<u, what>>}

\* The answer or the error; the last request to end leaves none running.
End(r) ==
    /\ req' = [req EXCEPT ![r] = Idle]
    /\ moved' = IF Busy = {r} THEN {} ELSE moved

-----------------------------------------------------------------------------
(* The outside world *)

Outside == outside < MaxOutside /\ outside' = outside + 1

NewProfile(u, p) == [role |-> IF u = Root THEN "admin" ELSE "devotee", phone |-> p]

\* The public sign-up form and Google: an e-mail account, the admin's address too.
\* Accounts without any way to sign in come from the Firebase console. The first
\* login writes the profile, now or later.
SignUp ==
    /\ Outside
    /\ \E u \in Unused, login \in {"none", "other", "adminEmail"} :
           /\ login = "adminEmail" => AdminAccount = {}
           /\ auth' = [auth EXCEPT ![u] = Account(None, login, "own")]
           /\ \E p \in Phones \cup {None} :
                  profile' \in {profile, [profile EXCEPT ![u] = NewProfile(u, p)]}
    /\ UNCHANGED <<req, moved>>

\* Its owner verifies a phone with Firebase.
AttachPhone ==
    /\ Outside
    /\ \E u \in Uids, p \in Phones :
           /\ auth[u] # None /\ auth[u].login # "none"
           /\ PhoneOwner(p) = {}
           /\ auth' = [auth EXCEPT ![u].phone = p]
           /\ Changed(u, "attached")
    /\ UNCHANGED <<profile, req>>

\* The profile of an account, or of a devotee whom staff add.
CreateProfile ==
    /\ Outside
    /\ \E u \in Uids, p \in Phones \cup {None} :
           /\ profile[u] = None
           /\ auth[u] = None => u # Root /\ \E s \in Uids : RoleOf(s) \in ELEVATED_ROLES
           /\ profile' = [profile EXCEPT ![u] = NewProfile(u, p)]
    /\ UNCHANGED <<auth, req, moved>>

\* Owners and staff edit phones; admins change roles and delete profiles.
EditPhone ==
    /\ Outside
    /\ \E u \in Uids, p \in Phones \cup {None} :
           /\ profile[u] # None /\ profile[u].phone # p
           /\ profile' = [profile EXCEPT ![u].phone = p]
           /\ Changed(u, "edited")
    /\ UNCHANGED <<auth, req>>

AdminEdits ==
    /\ Outside
    /\ \E a \in Uids : RoleOf(a) = "admin"
    /\ \E u \in Uids :
           /\ profile[u] # None
           /\ \/ \E role \in Roles \ {profile[u].role} : profile' = [profile EXCEPT ![u].role = role]
              \/ profile' = [profile EXCEPT ![u] = None]
           /\ Changed(u, "edited")
    /\ UNCHANGED <<auth, req>>

\* The last ID token of a revoked session, an hour after it was made.
TokenExpires ==
    /\ \E u \in Uids :
           /\ auth[u] # None /\ auth[u].session = "token"
           /\ auth' = [auth EXCEPT ![u].session = "none"]
    /\ UNCHANGED <<profile, req, moved, outside>>

\* A call to Firebase or to the database fails, or the process dies.
RequestFails(r) ==
    /\ req[r].pc # "idle"
    /\ End(r)
    /\ UNCHANGED <<auth, profile, outside>>

-----------------------------------------------------------------------------
(* verifyOtp, once the code was right: findUidByPhone, signInWithPhone *)

StartLogin(r) ==
    /\ req[r].pc = "idle"
    /\ \E p \in Phones : req' = [req EXCEPT ![r] = [Idle EXCEPT !.pc = "registry", !.phone = p]]
    /\ UNCHANGED <<auth, profile, moved, outside>>

\* 1) The phone registry of Firebase Auth.
Registry(r) ==
    /\ req[r].pc = "registry"
    /\ \/ \E u \in PhoneOwner(req[r].phone) : Found(r, u, "mint")
       \/ PhoneOwner(req[r].phone) = {} /\ Goto(r, "profiles")
    /\ UNCHANGED <<auth, profile, outside>>

\* 2) The one profile, not of staff, that claims the number.
TrustedBug(claims) == Cardinality(claims) = 1
Trusted(claims) ==
    /\ Cardinality(claims) = 1
    /\ \A u \in claims : profile[u].role \notin ELEVATED_ROLES

Profiles(r) ==
    LET claims == {u \in Uids : profile[u] # None /\ profile[u].phone = req[r].phone} IN
    /\ req[r].pc = "profiles"
    /\ \/ claims = {} /\ Goto(r, "create")
       \/ claims # {} /\ ~Trusted(claims) /\ End(r)
       \/ Trusted(claims) /\ \E u \in claims : Found(r, u, "getUser")
    /\ UNCHANGED <<auth, profile, outside>>

\* The account of that profile: none yet, or one with this number or none, and no
\* other way to sign in.
OwnNumberBug(u, p) == auth[u].login = "none"
OwnNumber(u, p) == auth[u].phone \in {None, p} /\ auth[u].login = "none"

\* What a found profile without an account still needs.
FirstLogin == "createAs"

GetUser(r) ==
    LET u == req[r].uid IN
    /\ req[r].pc = "getUser"
    /\ \/ auth[u] = None /\ Goto(r, FirstLogin)
       \/ auth[u] # None /\ ~OwnNumber(u, req[r].phone) /\ End(r)
       \/ auth[u] # None /\ OwnNumber(u, req[r].phone)
              /\ Goto(r, IF auth[u].phone = None THEN "link" ELSE "mint")
    /\ UNCHANGED <<auth, profile, outside>>

\* createUser({ uid, phoneNumber }): an account with this uid will do, one with
\* this phone will not.
CreateAs(r) ==
    LET u == req[r].uid p == req[r].phone IN
    /\ req[r].pc = "createAs"
    /\ \/ auth[u] # None /\ Goto(r, "mint") /\ UNCHANGED auth
       \/ PhoneOwner(p) # {} /\ End(r) /\ UNCHANGED auth
       \/ /\ auth[u] = None /\ PhoneOwner(p) = {}
          /\ auth' = [auth EXCEPT ![u] = Account(p, "none", "own")]
          /\ Goto(r, "mint")
    /\ UNCHANGED <<profile, outside>>

\* updateUser(uid, { phoneNumber }).
Link(r) ==
    LET u == req[r].uid p == req[r].phone IN
    /\ req[r].pc = "link"
    /\ \/ PhoneOwner(p) \ {u} # {} /\ Goto(r, "owner") /\ UNCHANGED auth
       \/ PhoneOwner(p) \ {u} = {} /\ auth' = [auth EXCEPT ![u].phone = p] /\ Goto(r, "mint")
    /\ UNCHANGED <<profile, outside>>

\* Nobody claims the number: createUser({ phoneNumber }).
CreateFresh(r) ==
    LET p == req[r].phone IN
    /\ req[r].pc = "create"
    /\ \/ PhoneOwner(p) # {} /\ Goto(r, "owner") /\ UNCHANGED auth
       \/ /\ PhoneOwner(p) = {}
          /\ \E u \in NewUid : auth' = [auth EXCEPT ![u] = Account(p, "none", "own")] /\ Found(r, u, "mint")
    /\ UNCHANGED <<profile, outside>>

\* Another request has registered the number meanwhile: its account.
Owner(r) ==
    LET owner == PhoneOwner(req[r].phone) IN
    /\ req[r].pc = "owner"
    /\ \/ \E u \in owner : Found(r, u, "mint")
       \/ owner = {} /\ End(r)
    /\ UNCHANGED <<auth, profile, outside>>

\* The token, or the refusal of an account the team has disabled.
Mint(r) ==
    /\ req[r].pc = "mint"
    /\ End(r)
    /\ UNCHANGED <<auth, profile, outside>>

-----------------------------------------------------------------------------
(* createOrResetAdmin *)

\* authorizeCaller: an admin, the root account, or the right setup code, which any
\* account may have been given.
StartSetup(r) ==
    /\ req[r].pc = "idle"
    /\ \E c \in Uids :
           /\ auth[c] # None
           /\ req' = [req EXCEPT ![r] = [Idle EXCEPT
                  !.pc = "findAdmin", !.caller = c, !.promote = RoleOf(c) # "admin"]]
    /\ UNCHANGED <<auth, profile, moved, outside>>

FindAdmin(r) ==
    /\ req[r].pc = "findAdmin"
    /\ \/ AdminAccount = {} /\ Goto(r, "createAdmin")
       \/ \E u \in AdminAccount :
              /\ req' = [req EXCEPT ![r].uid = u, ![r].pc = "getProfile",
                                    ![r].hadPhone = auth[u].phone # None]
              /\ UNCHANGED moved
    /\ UNCHANGED <<auth, profile, outside>>

\* When another set-up was first, its account is looked up.
CreateAdmin(r) ==
    /\ req[r].pc = "createAdmin"
    /\ \/ AdminAccount # {} /\ Goto(r, "findAdmin") /\ UNCHANGED auth
       \/ /\ AdminAccount = {}
          /\ \E u \in NewUid : /\ auth' = [auth EXCEPT ![u] = Account(None, "adminEmail", "team")]
                               /\ Found(r, u, "getProfile")
    /\ UNCHANGED <<profile, outside>>

\* Whose account is it?  Not the team's, unless its profile says admin.
ClaimedBug(u) == profile[u] = None
Claimed(u) == RoleOf(u) # "admin"

GetProfile(r) ==
    /\ req[r].pc = "getProfile"
    /\ req' = [req EXCEPT ![r].claimed = Claimed(req[r].uid), ![r].pc = "update"]
    /\ UNCHANGED <<auth, profile, moved, outside>>

\* updateUser: the password, and no phone on an account someone else had.
Dropped(r) == req[r].claimed /\ req[r].hadPhone

TakeOver(r) ==
    LET u == req[r].uid IN
    /\ req[r].pc = "update"
    /\ auth' = [auth EXCEPT ![u].password = "team",
                            ![u].phone = IF Dropped(r) THEN None ELSE auth[u].phone]
    /\ Goto(r, "revoke")
    /\ UNCHANGED <<profile, outside>>

\* revokeRefreshTokens: no more ID tokens; the last one is good for up to an hour.
Revoke(r) ==
    /\ req[r].pc = "revoke"
    /\ auth' = [auth EXCEPT ![req[r].uid].session = IF @ = "live" THEN "token" ELSE @]
    /\ Goto(r, "setProfile")
    /\ UNCHANGED <<profile, outside>>

PhoneIn(u) == IF profile[u] = None THEN None ELSE profile[u].phone

SetProfile(r) ==
    LET u == req[r].uid IN
    /\ req[r].pc = "setProfile"
    /\ profile' = [profile EXCEPT ![u] =
           [role |-> "admin", phone |-> IF req[r].claimed THEN None ELSE PhoneIn(u)]]
    /\ Goto(r, "promote")
    /\ UNCHANGED <<auth, outside>>

\* The caller who was no admin yet becomes one.
Promote(r) ==
    LET c == req[r].caller IN
    /\ req[r].pc = "promote"
    /\ IF c # req[r].uid /\ req[r].promote
       THEN /\ profile' = [profile EXCEPT ![c] = [role |-> "admin", phone |-> PhoneIn(c)]]
            /\ req' = [req EXCEPT ![r] = Idle]
            /\ moved' = IF Busy = {r} THEN {} ELSE moved \cup {<<c, "edited">>}
       ELSE End(r) /\ UNCHANGED profile
    /\ UNCHANGED <<auth, outside>>

-----------------------------------------------------------------------------

Login(r) ==
    \/ StartLogin(r) \/ Registry(r) \/ Profiles(r) \/ GetUser(r)
    \/ CreateAs(r) \/ Link(r) \/ CreateFresh(r) \/ Owner(r) \/ Mint(r)
Setup(r) ==
    \/ StartSetup(r) \/ FindAdmin(r) \/ CreateAdmin(r) \/ GetProfile(r)
    \/ TakeOver(r) \/ Revoke(r) \/ SetProfile(r) \/ Promote(r)

Next ==
    \/ SignUp \/ AttachPhone \/ CreateProfile \/ EditPhone \/ AdminEdits \/ TokenExpires
    \/ \E r \in Reqs : Login(r) \/ Setup(r) \/ RequestFails(r)

Spec == Init /\ [][Next]_vars

-----------------------------------------------------------------------------
(* Properties *)

LoginPcs == {"registry", "profiles", "getUser", "createAs", "link", "create", "owner", "mint"}

\* A phone signs in to the account that holds it: however many sign in with it at
\* the same time, find no account and create one, it never opens two.  (When the
\* account's profile was edited meanwhile the account may hold another phone; and
\* a set-up may have taken the phone away.)
LoginHoldsItsPhone ==
    \A r \in Reqs : req[r].pc = "mint" =>
        LET u == req[r].uid IN
        \/ auth[u].phone = req[r].phone
        \/ {<<u, "edited">>, <<u, "attached">>} \cap moved # {}
        \/ auth[u].phone = None /\ auth[u].password = "team"

\* No sign-in, and no race of sign-ins, puts a phone on an account that has
\* another one, that signs in by e-mail or Google, or that is staff's; unless its
\* profile was edited while they ran.
NumbersStay ==
    [][\A r \in Reqs, u \in Uids :
           req[r].pc \in LoginPcs \ {"mint"} /\ req'[r].pc = "mint"
               /\ auth[u] # None /\ auth'[u] # auth[u] =>
           \/ <<u, "edited">> \in moved
           \/ auth[u].phone = None /\ auth[u].login = "none" /\ RoleOf(u) \notin ELEVATED_ROLES]_vars

\* However set-ups fail, are run again or race: when one makes an account an admin's,
\* whoever had claimed the address before has no password left, no session that is
\* renewed, and no phone (unless the phone was attached, or the profile edited, while
\* set-ups ran).  The ID token of a revoked session may be left until it expires, and
\* the server takes it for the admin's by then: "so nobody stays signed in with the old
\* one" (admin.service.js:144) is true an hour later.
AdminTakenOver ==
    [][\A r \in Reqs : req[r].pc = "setProfile" /\ req'[r].pc = "promote" =>
        LET u == req[r].uid IN
        /\ auth[u].password = "team" /\ auth[u].session # "live"
        /\ \/ auth[u].phone = None \/ RoleOf(u) = "admin"
           \/ {<<u, "edited">>, <<u, "attached">>} \cap moved # {}]_vars
=============================================================================
