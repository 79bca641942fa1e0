--------------------------- MODULE Accounts_proofs ---------------------------
(***************************************************************************)
(* Proofs about Accounts: whom a phone signs in, and what the set-up of    *)
(* the admin login leaves, for any accounts, phones and requests.          *)
(***************************************************************************)
EXTENDS Accounts, TLAPS

Pcs == LoginPcs \cup {"idle", "findAdmin", "createAdmin", "getProfile", "update", "revoke",
                      "setProfile", "promote"}

Request == [pc : Pcs, phone : Phones \cup {None}, uid : Uids \cup {None}, caller : Uids \cup {None},
            promote : BOOLEAN, claimed : BOOLEAN, hadPhone : BOOLEAN]

\* The team's password is set on the account of the admin address only.
AccountsFine ==
    /\ auth \in [Uids -> AuthRecord \cup {None}]
    /\ profile \in [Uids -> Profile \cup {None}]
    /\ \A u \in Uids : auth[u] # None /\ auth[u].password = "team" => auth[u].login = "adminEmail"

Types == AccountsFine /\ req \in [Reqs -> Request]

Edited(u) == <<u, "edited">> \in moved
Attached(u) == <<u, "attached">> \in moved
StaffLogin(u) == auth[u] # None /\ auth[u].login = "adminEmail"
Claims(u, p) == profile[u] # None /\ profile[u].phone = p /\ profile[u].role \notin ELEVATED_ROLES

\* What a sign-in knows at each step stays true while it waits for the next answer,
\* unless the profile is edited meanwhile.
LoginOK(r) ==
    LET u == req[r].uid  p == req[r].phone IN
    /\ req[r].pc \in LoginPcs => p \in Phones
    /\ req[r].pc \in {"getUser", "createAs", "link", "mint"} => u \in Uids
    /\ req[r].pc \in {"getUser", "createAs", "link"} => Edited(u) \/ StaffLogin(u) \/ Claims(u, p)
    /\ req[r].pc = "createAs" =>
           Edited(u) \/ auth[u] = None \/ (auth[u].phone = p /\ auth[u].login = "none")
    /\ req[r].pc = "link" =>
           /\ auth[u] # None
           /\ Edited(u) \/ (auth[u].phone \in {None, p} /\ auth[u].login = "none" /\ Claims(u, p))
    /\ req[r].pc = "mint" =>
           /\ auth[u] # None
           /\ \/ auth[u].phone = p \/ Edited(u) \/ Attached(u)
              \/ auth[u].phone = None /\ auth[u].password = "team"

\* What a set-up knows.
SetupOK(r) ==
    LET u == req[r].uid IN
    /\ req[r].pc \in {"findAdmin", "createAdmin", "getProfile", "update", "revoke", "setProfile", "promote"} =>
           req[r].caller \in Uids
    /\ req[r].pc \in {"getProfile", "update", "revoke", "setProfile", "promote"} =>
           u \in Uids /\ StaffLogin(u)
    /\ req[r].pc \in {"findAdmin", "createAdmin"} => ~req[r].hadPhone
    /\ req[r].pc \in {"getProfile", "update"} /\ ~req[r].hadPhone =>
           auth[u].phone = None \/ Attached(u) \/ Edited(u)
    /\ req[r].pc \in {"update", "revoke", "setProfile"} /\ ~req[r].claimed =>
           RoleOf(u) = "admin" \/ Edited(u)
    /\ req[r].pc \in {"revoke", "setProfile"} =>
           /\ auth[u].password = "team"
           /\ auth[u].phone = None \/ ~req[r].claimed \/ Attached(u) \/ Edited(u)
    /\ req[r].pc = "setProfile" => auth[u].session # "live"

IInv == Types /\ \A r \in Reqs : LoginOK(r) /\ SetupOK(r)

-----------------------------------------------------------------------------
(* What a step leaves of the accounts and profiles for everybody else *)

Kept ==
    /\ moved \subseteq moved'
    /\ \A u \in Uids :
           /\ auth[u] # None =>
                  /\ auth'[u] # None /\ auth'[u].login = auth[u].login
                  /\ auth[u].password = "team" => auth'[u].password = "team"
                  /\ auth[u].session # "live" => auth'[u].session # "live"
                  /\ auth'[u].phone # auth[u].phone =>
                         \/ Edited(u)'
                         \/ Attached(u)' /\ auth[u].login # "none"
                         \/ StaffLogin(u) /\ auth'[u].phone = None /\ auth'[u].password = "team"
                         \/ auth[u].phone = None /\ auth[u].login = "none" /\ Claims(u, auth'[u].phone)
           /\ auth[u] = None /\ auth'[u] # None =>
                  \/ profile[u] = None
                  \/ Edited(u)
                  \/ auth'[u].login = "none" /\ Claims(u, auth'[u].phone)
           /\ profile[u] # None /\ profile'[u] # profile[u] =>
                  \/ Edited(u)'
                  \/ StaffLogin(u) /\ profile'[u] # None /\ profile'[u].role = "admin"

\* What is known of an account stays known.
LEMMA FactsStand ==
    ASSUME Types, Types', Kept, NEW u \in Uids, NEW p
    PROVE  /\ Edited(u) => Edited(u)'
           /\ Attached(u) => Attached(u)'
           /\ StaffLogin(u) => StaffLogin(u)'
           /\ Claims(u, p) => Edited(u)' \/ StaffLogin(u)' \/ Claims(u, p)'
           /\ Claims(u, p) /\ auth[u] # None /\ auth[u].login = "none" => Edited(u)' \/ Claims(u, p)'
           /\ RoleOf(u) = "admin" => Edited(u)' \/ RoleOf(u)' = "admin"
<1>1. Edited(u) => Edited(u)'
    BY DEF Kept, Edited
<1>2. Attached(u) => Attached(u)'
    BY DEF Kept, Attached
<1>3. StaffLogin(u) => StaffLogin(u)'
    BY DEF Kept, StaffLogin
<1>4. profile[u] # None /\ profile'[u] # profile[u] =>
          \/ Edited(u)'
          \/ StaffLogin(u) /\ profile'[u] # None /\ profile'[u].role = "admin"
    BY DEF Kept
<1>5. Claims(u, p) => Edited(u)' \/ StaffLogin(u)' \/ Claims(u, p)'
    BY <1>3, <1>4 DEF Claims
<1>6. Claims(u, p) /\ auth[u] # None /\ auth[u].login = "none" => Edited(u)' \/ Claims(u, p)'
    BY <1>4 DEF Claims, StaffLogin
<1>7. RoleOf(u) = "admin" => Edited(u)' \/ RoleOf(u)' = "admin"
    BY <1>4, NoneAssumption DEF RoleOf, Roles
<1> QED BY <1>1, <1>2, <1>3, <1>5, <1>6, <1>7

LEMMA OthersStand ==
    ASSUME Types, Types', Kept,
           NEW x \in Reqs, LoginOK(x), SetupOK(x), req'[x] = req[x]
    PROVE  LoginOK(x)' /\ SetupOK(x)'
<1> DEFINE u == req[x].uid
<1> DEFINE p == req[x].phone
<1> DEFINE pc == req[x].pc
<1>1. u \in Uids =>
          /\ Edited(u) => Edited(u)'
          /\ Attached(u) => Attached(u)'
          /\ StaffLogin(u) => StaffLogin(u)'
          /\ Claims(u, p) => Edited(u)' \/ StaffLogin(u)' \/ Claims(u, p)'
          /\ Claims(u, p) /\ auth[u] # None /\ auth[u].login = "none" => Edited(u)' \/ Claims(u, p)'
          /\ RoleOf(u) = "admin" => Edited(u)' \/ RoleOf(u)' = "admin"
    BY FactsStand
<1>2. pc \in LoginPcs => p \in Phones /\ p # None
    BY NoneAssumption DEF LoginOK
<1>3. ASSUME pc = "createAs"
      PROVE  Edited(u)' \/ auth'[u] = None \/ (auth'[u].phone = p /\ auth'[u].login = "none")
    BY <1>1, <1>2, <1>3 DEF LoginOK, LoginPcs, Kept, Claims, StaffLogin
<1>4. ASSUME pc = "link"
      PROVE  /\ auth'[u] # None
             /\ Edited(u)' \/ (auth'[u].phone \in {None, p} /\ auth'[u].login = "none" /\ Claims(u, p)')
    BY <1>1, <1>2, <1>4 DEF LoginOK, LoginPcs, Kept, Claims, StaffLogin
<1>5. ASSUME pc = "mint"
      PROVE  /\ auth'[u] # None
             /\ \/ auth'[u].phone = p \/ Edited(u)' \/ Attached(u)'
                \/ auth'[u].phone = None /\ auth'[u].password = "team"
    BY <1>1, <1>2, <1>5 DEF LoginOK, LoginPcs, Kept, StaffLogin, Types, AccountsFine
<1>6. LoginOK(x)'
    BY <1>1, <1>2, <1>3, <1>4, <1>5 DEF LoginOK, LoginPcs
<1>7. ASSUME pc \in {"getProfile", "update", "revoke", "setProfile"}
      PROVE  /\ auth[u].phone = None \/ Attached(u) \/ Edited(u) =>
                    auth'[u].phone = None \/ Attached(u)' \/ Edited(u)'
             /\ auth[u].password = "team" => auth'[u].password = "team"
             /\ auth[u].session # "live" => auth'[u].session # "live"
    BY <1>1, <1>7 DEF SetupOK, Kept, StaffLogin
<1>8. SetupOK(x)'
    BY <1>1, <1>7 DEF SetupOK
<1> QED BY <1>6, <1>8

LEMMA EverybodyStands ==
    ASSUME IInv, Types',
           \A x \in Reqs : \/ req'[x] = req[x] /\ (req[x].pc # "idle" => Kept)
                           \/ LoginOK(x)' /\ SetupOK(x)'
    PROVE  IInv'
<1> SUFFICES ASSUME NEW x \in Reqs, req'[x] = req[x], req[x].pc # "idle" => Kept
             PROVE  LoginOK(x)' /\ SetupOK(x)'
    BY DEF IInv
<1>1. CASE req[x].pc = "idle"
    BY <1>1 DEF LoginOK, SetupOK, LoginPcs
<1>2. CASE req[x].pc # "idle"
    BY <1>2, OthersStand DEF IInv
<1> QED BY <1>1, <1>2

LEMMA NothingMoved ==
    ASSUME UNCHANGED <<auth, profile, moved>>
    PROVE  Kept
BY DEF Kept

\* What has to be shown of an action of r: the types, what it leaves for the others,
\* and what r itself knows afterwards.
LEMMA RequestStep ==
    ASSUME IInv, NEW r \in Reqs, NEW q \in Request, req' = [req EXCEPT ![r] = q],
           AccountsFine', Busy # {r} => Kept, LoginOK(r)', SetupOK(r)'
    PROVE  IInv'
<1>1. /\ req \in [Reqs -> Request]
      /\ \A x \in Reqs : x # r => req'[x] = req[x]
    BY DEF IInv, Types
<1>2. Types'
    BY <1>1 DEF Types
<1>3. ASSUME NEW x \in Reqs, x # r, req[x].pc # "idle"
      PROVE  Kept
    BY <1>3 DEF Busy
<1> QED BY <1>1, <1>2, <1>3, EverybodyStands

LEMMA IdleIsFine ==
    ASSUME NEW r \in Reqs, req'[r].pc = "idle"
    PROVE  LoginOK(r)' /\ SetupOK(r)'
BY DEF LoginOK, SetupOK, LoginPcs

LEMMA EndKeeps ==
    ASSUME IInv, NEW r \in Reqs, End(r), UNCHANGED <<auth, profile>>
    PROVE  IInv'
<1>1. Idle \in Request
    BY DEF Idle, Request, Pcs
<1>2. req'[r].pc = "idle"
    BY DEF End, Idle, IInv, Types
<1>3. LoginOK(r)' /\ SetupOK(r)'
    BY <1>2, IdleIsFine
<1>4. Busy # {r} => Kept
    BY NothingMoved DEF End
<1>5. req' = [req EXCEPT ![r] = Idle]
    BY DEF End
<1>6. AccountsFine'
    BY DEF AccountsFine, IInv, Types
<1> QED BY <1>1, <1>3, <1>4, <1>5, <1>6, RequestStep

\* A request that goes on to its next call.
LEMMA GoesOn ==
    ASSUME IInv, NEW r \in Reqs, NEW pc \in Pcs, Goto(r, pc)
    PROVE  /\ req'[r] = [req[r] EXCEPT !.pc = pc]
           /\ req'[r] \in Request
           /\ req' = [req EXCEPT ![r] = req'[r]]
           /\ moved' = moved
<1>1. req \in [Reqs -> Request]
    BY DEF IInv, Types
<1>2. req' = [req EXCEPT ![r].pc = pc] /\ moved' = moved
    BY DEF Goto
<1>3. req'[r] = [req[r] EXCEPT !.pc = pc]
    BY <1>1, <1>2
<1>4. req'[r] \in Request
    BY <1>1, <1>3 DEF Request
<1> QED BY <1>1, <1>2, <1>3, <1>4

LEMMA FindsAndGoesOn ==
    ASSUME IInv, NEW r \in Reqs, NEW pc \in Pcs, NEW u \in Uids, Found(r, u, pc)
    PROVE  /\ req'[r] = [req[r] EXCEPT !.uid = u, !.pc = pc]
           /\ req'[r] \in Request
           /\ req' = [req EXCEPT ![r] = req'[r]]
           /\ moved' = moved
<1>1. req \in [Reqs -> Request]
    BY DEF IInv, Types
<1>2. req' = [req EXCEPT ![r].uid = u, ![r].pc = pc] /\ moved' = moved
    BY DEF Found
<1>3. req'[r] = [req[r] EXCEPT !.uid = u, !.pc = pc]
    BY <1>1, <1>2
<1>4. req'[r] \in Request
    BY <1>1, <1>3 DEF Request
<1> QED BY <1>1, <1>2, <1>3, <1>4

LEMMA GotoKeeps ==
    ASSUME IInv, NEW r \in Reqs, NEW pc \in Pcs, Goto(r, pc),
           AccountsFine', Kept, LoginOK(r)', SetupOK(r)'
    PROVE  IInv'
BY GoesOn, RequestStep

LEMMA FoundKeeps ==
    ASSUME IInv, NEW r \in Reqs, NEW pc \in Pcs, NEW u \in Uids, Found(r, u, pc),
           AccountsFine', Kept, LoginOK(r)', SetupOK(r)'
    PROVE  IInv'
BY FindsAndGoesOn, RequestStep

\* A sign-in knows nothing of set-ups, and the other way round.
LEMMA LoginOnly ==
    ASSUME NEW r \in Reqs, req'[r].pc \in LoginPcs
    PROVE  SetupOK(r)'
BY DEF SetupOK, LoginPcs

LEMMA SetupOnly ==
    ASSUME NEW r \in Reqs, req'[r].pc \in Pcs \ LoginPcs
    PROVE  LoginOK(r)'
BY DEF LoginOK, LoginPcs, Pcs

LEMMA Untouched ==
    ASSUME IInv, UNCHANGED <<auth, profile>>
    PROVE  AccountsFine'
BY DEF IInv, Types, AccountsFine

-----------------------------------------------------------------------------
(* The steps of a sign-in *)

LEMMA StartLoginKeeps ==
    ASSUME IInv, NEW r \in Reqs, StartLogin(r)
    PROVE  IInv'
<1>1. PICK p \in Phones : req' = [req EXCEPT ![r] = [Idle EXCEPT !.pc = "registry", !.phone = p]]
    BY DEF StartLogin
<1> DEFINE q == [Idle EXCEPT !.pc = "registry", !.phone = p]
<1>2. q \in Request
    BY DEF Idle, Request, Pcs, LoginPcs
<1>3. req'[r] = q
    BY <1>1 DEF IInv, Types
<1>4. q.pc = "registry" /\ q.phone = p
    BY DEF Idle
<1> HIDE DEF q
<1>5. LoginOK(r)' /\ SetupOK(r)'
    BY <1>3, <1>4 DEF LoginOK, SetupOK, LoginPcs
<1>6. UNCHANGED <<auth, profile, moved>>
    BY DEF StartLogin
<1>7. req' = [req EXCEPT ![r] = q]
    BY <1>1 DEF q
<1> QED BY <1>2, <1>5, <1>6, <1>7, NothingMoved, Untouched, RequestStep

\* The account that holds the phone signs it in.
LEMMA HolderFound ==
    ASSUME IInv, NEW r \in Reqs, req[r].pc \in LoginPcs,
           NEW u \in PhoneOwner(req[r].phone), Found(r, u, "mint"), UNCHANGED <<auth, profile>>
    PROVE  IInv'
<1>1. u \in Uids /\ auth[u] # None /\ auth[u].phone = req[r].phone /\ "mint" \in Pcs
    BY DEF PhoneOwner, Pcs, LoginPcs
<1>2. /\ req'[r] = [req[r] EXCEPT !.uid = u, !.pc = "mint"]
      /\ moved' = moved
    BY <1>1, FindsAndGoesOn
<1>3. req'[r].pc = "mint" /\ req'[r].uid = u /\ req'[r].phone = req[r].phone
    BY <1>2 DEF IInv, Types, Request
<1>4. req[r].phone \in Phones
    BY DEF IInv, LoginOK
<1>5. LoginOK(r)'
    BY <1>1, <1>3, <1>4 DEF LoginOK
<1>6. SetupOK(r)'
    BY <1>3, LoginOnly DEF LoginPcs
<1> QED BY <1>1, <1>2, <1>5, <1>6, NothingMoved, Untouched, FoundKeeps

LEMMA RegistryKeeps ==
    ASSUME IInv, NEW r \in Reqs, Registry(r)
    PROVE  IInv'
<1>1. CASE Goto(r, "profiles")
    <2>1. "profiles" \in Pcs
        BY DEF Pcs, LoginPcs
    <2>2. req'[r] = [req[r] EXCEPT !.pc = "profiles"] /\ moved' = moved
        BY <1>1, <2>1, GoesOn
    <2>3. req'[r].pc = "profiles" /\ req'[r].phone = req[r].phone
        BY <2>2 DEF IInv, Types, Request
    <2>4. LoginOK(r)'
        BY <2>3 DEF Registry, IInv, LoginOK, LoginPcs
    <2>5. SetupOK(r)'
        BY <2>3, LoginOnly DEF LoginPcs
    <2> QED BY <1>1, <2>1, <2>2, <2>4, <2>5, NothingMoved, Untouched, GotoKeeps DEF Registry
<1>2. CASE \E u \in PhoneOwner(req[r].phone) : Found(r, u, "mint")
    BY <1>2, HolderFound DEF Registry, LoginPcs
<1> QED BY <1>1, <1>2 DEF Registry

LEMMA ProfilesKeeps ==
    ASSUME IInv, NEW r \in Reqs, Profiles(r)
    PROVE  IInv'
<1> DEFINE claims == {u \in Uids : profile[u] # None /\ profile[u].phone = req[r].phone}
<1>1. req[r].phone \in Phones
    BY DEF Profiles, IInv, LoginOK, LoginPcs
<1>2. CASE Goto(r, "create")
    <2>1. "create" \in Pcs
        BY DEF Pcs, LoginPcs
    <2>2. req'[r] = [req[r] EXCEPT !.pc = "create"] /\ moved' = moved
        BY <1>2, <2>1, GoesOn
    <2>3. req'[r].pc = "create" /\ req'[r].phone = req[r].phone
        BY <2>2 DEF IInv, Types, Request
    <2>4. LoginOK(r)'
        BY <1>1, <2>3 DEF LoginOK, LoginPcs
    <2>5. SetupOK(r)'
        BY <2>3, LoginOnly DEF LoginPcs
    <2> QED BY <1>2, <2>1, <2>2, <2>4, <2>5, NothingMoved, Untouched, GotoKeeps DEF Profiles
<1>3. CASE End(r)
    BY <1>3, EndKeeps DEF Profiles
<1>4. ASSUME Trusted(claims), NEW u \in claims, Found(r, u, "getUser")
      PROVE  IInv'
    <2>1. u \in Uids /\ "getUser" \in Pcs /\ Claims(u, req[r].phone)
        BY <1>4 DEF Pcs, LoginPcs, Trusted, Claims
    <2>2. req'[r] = [req[r] EXCEPT !.uid = u, !.pc = "getUser"] /\ moved' = moved
        BY <1>4, <2>1, FindsAndGoesOn
    <2>3. req'[r].pc = "getUser" /\ req'[r].uid = u /\ req'[r].phone = req[r].phone
        BY <2>2 DEF IInv, Types, Request
    <2>4. LoginOK(r)'
        BY <1>1, <2>1, <2>3 DEF LoginOK, LoginPcs, Claims, Profiles
    <2>5. SetupOK(r)'
        BY <2>3, LoginOnly DEF LoginPcs
    <2> QED BY <1>4, <2>1, <2>2, <2>4, <2>5, NothingMoved, Untouched, FoundKeeps DEF Profiles
<1> QED BY <1>2, <1>3, <1>4 DEF Profiles

LEMMA GetUserKeeps ==
    ASSUME IInv, NEW r \in Reqs, GetUser(r)
    PROVE  IInv'
<1> DEFINE u == req[r].uid
<1> DEFINE p == req[r].phone
<1>1. /\ p \in Phones /\ u \in Uids
      /\ Edited(u) \/ StaffLogin(u) \/ Claims(u, p)
    BY DEF GetUser, IInv, LoginOK, LoginPcs
<1>2. ASSUME NEW pc \in {"createAs", "link", "mint"}, Goto(r, pc),
             pc = "createAs" => auth[u] = None,
             pc \in {"link", "mint"} => auth[u] # None /\ OwnNumber(u, p),
             pc = "mint" => auth[u].phone # None
      PROVE  IInv'
    <2>1. pc \in Pcs /\ pc \in LoginPcs
        BY DEF Pcs, LoginPcs
    <2>2. req'[r] = [req[r] EXCEPT !.pc = pc] /\ moved' = moved
        BY <1>2, <2>1, GoesOn
    <2>3. req'[r].pc = pc /\ req'[r].phone = p /\ req'[r].uid = u
        BY <2>2 DEF IInv, Types, Request
    <2>4. UNCHANGED <<auth, profile>>
        BY DEF GetUser
    <2>5. /\ Edited(u)' = Edited(u)
          /\ StaffLogin(u)' = StaffLogin(u)
          /\ Claims(u, p)' = Claims(u, p)
        BY <2>2, <2>3, <2>4 DEF Edited, StaffLogin, Claims
    <2>6. LoginOK(r)'
        BY <1>1, <1>2, <2>3, <2>4, <2>5 DEF LoginOK, OwnNumber, StaffLogin
    <2>7. SetupOK(r)'
        BY <2>1, <2>3, LoginOnly
    <2> QED BY <1>2, <2>1, <2>2, <2>4, <2>6, <2>7, NothingMoved, Untouched, GotoKeeps
<1>3. CASE End(r)
    BY <1>3, EndKeeps DEF GetUser
<1>4. CASE auth[u] = None /\ Goto(r, "createAs")
    BY <1>2, <1>4
<1>5. CASE auth[u] # None /\ OwnNumber(u, p) /\ Goto(r, IF auth[u].phone = None THEN "link" ELSE "mint")
    BY <1>2, <1>5
<1> QED BY <1>3, <1>4, <1>5 DEF GetUser, FirstLogin

\* The phone has just been put on account u.
LEMMA HoldsItNow ==
    ASSUME IInv, NEW r \in Reqs, NEW u \in Uids, req[r].pc \in LoginPcs,
           req'[r].pc = "mint", req'[r].phone = req[r].phone, req'[r].uid = u,
           auth'[u] # None, auth'[u].phone = req[r].phone
    PROVE  LoginOK(r)' /\ SetupOK(r)'
<1>1. req[r].phone \in Phones
    BY DEF IInv, LoginOK
<1>2. LoginOK(r)'
    BY <1>1 DEF LoginOK
<1> QED BY <1>2, LoginOnly DEF LoginPcs

\* A fresh account.
LEMMA FreshAccount ==
    ASSUME IInv, NEW u \in Uids, auth[u] = None, NEW a \in AuthRecord,
           a.password = "team" => a.login = "adminEmail",
           auth' = [auth EXCEPT ![u] = a], profile' = profile, moved' = moved,
           profile[u] = None \/ Edited(u) \/ (a.login = "none" /\ Claims(u, a.phone))
    PROVE  AccountsFine' /\ Kept /\ auth'[u] = a /\ a # None
<1>1. a # None
    BY NoneAssumption
<1>2. auth \in [Uids -> AuthRecord \cup {None}]
    BY DEF IInv, Types, AccountsFine
<1>3. auth'[u] = a /\ \A v \in Uids \ {u} : auth'[v] = auth[v]
    BY <1>2
<1>4. auth' \in [Uids -> AuthRecord \cup {None}]
    BY <1>2
<1>5. AccountsFine'
    BY <1>3, <1>4 DEF AccountsFine, IInv, Types
<1>6. Kept
    BY <1>3 DEF Kept
<1> QED BY <1>1, <1>3, <1>5, <1>6

LEMMA AccountIs ==
    ASSUME NEW p \in Phones \cup {None}, NEW login \in {"none", "other", "adminEmail"},
           NEW password \in {"own", "team"}
    PROVE  LET a == Account(p, login, password) IN
           a \in AuthRecord /\ a.phone = p /\ a.login = login /\ a.password = password
BY DEF Account, AuthRecord

LEMMA CreateAsKeeps ==
    ASSUME IInv, NEW r \in Reqs, CreateAs(r)
    PROVE  IInv'
<1> DEFINE u == req[r].uid
<1> DEFINE p == req[r].phone
<1>1. /\ p \in Phones /\ u \in Uids
      /\ Edited(u) \/ StaffLogin(u) \/ Claims(u, p)
      /\ Edited(u) \/ auth[u] = None \/ (auth[u].phone = p /\ auth[u].login = "none")
      /\ req[r].pc \in LoginPcs
    BY DEF CreateAs, IInv, LoginOK, LoginPcs
<1>2. "mint" \in Pcs
    BY DEF Pcs, LoginPcs
<1>3. ASSUME Goto(r, "mint")
      PROVE  /\ req'[r].pc = "mint" /\ req'[r].phone = p /\ req'[r].uid = u
             /\ moved' = moved
    <2>1. req'[r] = [req[r] EXCEPT !.pc = "mint"] /\ moved' = moved
        BY <1>2, <1>3, GoesOn
    <2> QED BY <2>1 DEF IInv, Types, Request
<1>4. CASE auth[u] # None /\ Goto(r, "mint") /\ UNCHANGED auth
    <2>1. Edited(u)' = Edited(u)
        BY <1>3, <1>4 DEF Edited
    <2>2. LoginOK(r)'
        BY <1>1, <1>3, <1>4, <2>1 DEF LoginOK
    <2>3. SetupOK(r)'
        BY <1>3, <1>4, LoginOnly DEF LoginPcs
    <2> QED BY <1>2, <1>3, <1>4, <2>2, <2>3, NothingMoved, Untouched, GotoKeeps DEF CreateAs
<1>5. CASE End(r) /\ UNCHANGED auth
    BY <1>5, EndKeeps DEF CreateAs
<1>6. CASE auth[u] = None /\ auth' = [auth EXCEPT ![u] = Account(p, "none", "own")] /\ Goto(r, "mint")
    <2> DEFINE a == Account(p, "none", "own")
    <2>1. a \in AuthRecord /\ a.phone = p /\ a.login = "none" /\ a.password = "own"
        BY <1>1, AccountIs
    <2>2. auth' = [auth EXCEPT ![u] = a] /\ profile' = profile /\ moved' = moved
        BY <1>3, <1>6 DEF CreateAs
    <2> HIDE DEF a
    <2>3. Edited(u) \/ Claims(u, a.phone)
        BY <1>1, <1>6, <2>1 DEF StaffLogin
    <2>4. AccountsFine' /\ Kept /\ auth'[u] = a /\ a # None
        BY <1>1, <1>6, <2>1, <2>2, <2>3, FreshAccount
    <2>5. LoginOK(r)' /\ SetupOK(r)'
        BY <1>1, <1>3, <1>6, <2>1, <2>4, HoldsItNow
    <2> QED BY <1>2, <1>6, <2>4, <2>5, GotoKeeps
<1> QED BY <1>4, <1>5, <1>6 DEF CreateAs

LEMMA LinkKeeps ==
    ASSUME IInv, NEW r \in Reqs, Link(r)
    PROVE  IInv'
<1> DEFINE u == req[r].uid
<1> DEFINE p == req[r].phone
<1>1. /\ p \in Phones /\ u \in Uids /\ auth[u] # None
      /\ Edited(u) \/ (auth[u].phone \in {None, p} /\ auth[u].login = "none" /\ Claims(u, p))
      /\ req[r].pc \in LoginPcs
    BY DEF Link, IInv, LoginOK, LoginPcs
<1>2. ASSUME NEW pc \in {"mint", "owner"}, Goto(r, pc)
      PROVE  /\ req'[r].pc = pc /\ req'[r].phone = p /\ req'[r].uid = u /\ pc \in Pcs
             /\ moved' = moved
    <2>1. pc \in Pcs
        BY DEF Pcs, LoginPcs
    <2>2. req'[r] = [req[r] EXCEPT !.pc = pc] /\ moved' = moved
        BY <1>2, <2>1, GoesOn
    <2> QED BY <2>1, <2>2 DEF IInv, Types, Request
<1>3. CASE Goto(r, "owner") /\ UNCHANGED auth
    <2>1. LoginOK(r)'
        BY <1>1, <1>2, <1>3 DEF LoginOK
    <2>2. SetupOK(r)'
        BY <1>2, <1>3, LoginOnly DEF LoginPcs
    <2> QED BY <1>2, <1>3, <2>1, <2>2, NothingMoved, Untouched, GotoKeeps DEF Link
<1>4. CASE auth' = [auth EXCEPT ![u].phone = p] /\ Goto(r, "mint")
    <2>1. auth \in [Uids -> AuthRecord \cup {None}] /\ auth[u] \in AuthRecord
        BY <1>1 DEF IInv, Types, AccountsFine
    <2>2. /\ auth'[u] = [auth[u] EXCEPT !.phone = p]
          /\ \A v \in Uids \ {u} : auth'[v] = auth[v]
        BY <1>1, <1>4, <2>1
    <2>3. /\ auth'[u] \in AuthRecord /\ auth'[u].phone = p /\ auth'[u].login = auth[u].login
          /\ auth'[u].password = auth[u].password /\ auth'[u].session = auth[u].session
        BY <1>1, <2>1, <2>2 DEF AuthRecord
    <2>4. auth' \in [Uids -> AuthRecord \cup {None}]
        BY <1>4, <2>1, <2>3
    <2>5. AccountsFine'
        BY ZenonT(40), <1>1, <2>2, <2>3, <2>4 DEF AccountsFine, IInv, Types, Link
    <2>6. moved' = moved /\ profile' = profile
        BY <1>2, <1>4 DEF Link
    <2>7. Edited(u)' \/ (auth[u].phone \in {None, p} /\ auth[u].login = "none" /\ Claims(u, auth'[u].phone))
        BY <1>1, <1>2, <1>4, <2>3, <2>6 DEF Edited
    <2>8. auth'[u] # None
        BY <2>3, NoneAssumption
    <2>9. ASSUME NEW v \in Uids, v # u
          PROVE  auth'[v] = auth[v]
        BY <2>2, <2>9
    <2>10. /\ auth'[u].login = auth[u].login
           /\ auth[u].password = "team" => auth'[u].password = "team"
           /\ auth[u].session # "live" => auth'[u].session # "live"
           /\ auth'[u].phone # auth[u].phone =>
                  \/ <<u, "edited">> \in moved
                  \/ auth[u].phone = None /\ auth[u].login = "none" /\ Claims(u, auth'[u].phone)
        BY <1>1, <2>3, <2>6 DEF Edited
    <2>11. Kept
        BY <1>1, <2>6, <2>8, <2>9, <2>10 DEF Kept, Edited
    <2>12. LoginOK(r)' /\ SetupOK(r)'
        BY <1>1, <1>2, <1>4, <2>3, <2>8, HoldsItNow
    <2> QED BY <1>2, <1>4, <2>5, <2>11, <2>12, GotoKeeps
<1> QED BY <1>3, <1>4 DEF Link

LEMMA CreateFreshKeeps ==
    ASSUME IInv, NEW r \in Reqs, CreateFresh(r)
    PROVE  IInv'
<1> DEFINE p == req[r].phone
<1>1. p \in Phones /\ req[r].pc \in LoginPcs /\ "mint" \in Pcs /\ "owner" \in Pcs
    BY DEF CreateFresh, IInv, LoginOK, LoginPcs, Pcs
<1>2. CASE Goto(r, "owner") /\ UNCHANGED auth
    <2>1. req'[r] = [req[r] EXCEPT !.pc = "owner"] /\ moved' = moved
        BY <1>1, <1>2, GoesOn
    <2>2. req'[r].pc = "owner" /\ req'[r].phone = p
        BY <2>1 DEF IInv, Types, Request
    <2>3. LoginOK(r)'
        BY <1>1, <2>2 DEF LoginOK
    <2>4. SetupOK(r)'
        BY <2>2, LoginOnly DEF LoginPcs
    <2> QED BY <1>1, <1>2, <2>1, <2>3, <2>4, NothingMoved, Untouched, GotoKeeps DEF CreateFresh
<1>3. ASSUME NEW u \in NewUid, auth' = [auth EXCEPT ![u] = Account(p, "none", "own")], Found(r, u, "mint")
      PROVE  IInv'
    <2> DEFINE a == Account(p, "none", "own")
    <2>1. a \in AuthRecord /\ a.phone = p /\ a.login = "none" /\ a.password = "own"
        BY <1>1, AccountIs
    <2>2. u \in Uids /\ auth[u] = None /\ profile[u] = None
        BY DEF NewUid, Unused
    <2>3. req'[r] = [req[r] EXCEPT !.uid = u, !.pc = "mint"] /\ moved' = moved
        BY <1>1, <1>3, <2>2, FindsAndGoesOn
    <2>4. req'[r].pc = "mint" /\ req'[r].phone = p /\ req'[r].uid = u
        BY <2>3 DEF IInv, Types, Request
    <2>5. auth' = [auth EXCEPT ![u] = a] /\ profile' = profile
        BY <1>3 DEF CreateFresh
    <2> HIDE DEF a
    <2>6. AccountsFine' /\ Kept /\ auth'[u] = a /\ a # None
        BY <2>1, <2>2, <2>3, <2>5, FreshAccount
    <2>7. LoginOK(r)' /\ SetupOK(r)'
        BY <1>1, <2>1, <2>2, <2>4, <2>6, HoldsItNow
    <2> QED BY <1>1, <1>3, <2>2, <2>6, <2>7, FoundKeeps
<1> QED BY <1>2, <1>3 DEF CreateFresh

LEMMA OwnerKeeps ==
    ASSUME IInv, NEW r \in Reqs, Owner(r)
    PROVE  IInv'
<1>1. CASE End(r)
    BY <1>1, EndKeeps DEF Owner
<1>2. CASE \E u \in PhoneOwner(req[r].phone) : Found(r, u, "mint")
    BY <1>2, HolderFound DEF Owner, LoginPcs
<1> QED BY <1>1, <1>2 DEF Owner

-----------------------------------------------------------------------------
(* The steps of a set-up *)

LEMMA StartSetupKeeps ==
    ASSUME IInv, NEW r \in Reqs, StartSetup(r)
    PROVE  IInv'
<1>1. PICK c \in Uids : req' = [req EXCEPT ![r] = [Idle EXCEPT
              !.pc = "findAdmin", !.caller = c, !.promote = RoleOf(c) # "admin"]]
    BY DEF StartSetup
<1> DEFINE q == [Idle EXCEPT !.pc = "findAdmin", !.caller = c, !.promote = RoleOf(c) # "admin"]
<1>2. q \in Request
    BY DEF Idle, Request, Pcs
<1>3. req'[r] = q
    BY <1>1 DEF IInv, Types
<1>4. q.pc = "findAdmin" /\ q.caller = c /\ ~q.hadPhone
    BY DEF Idle
<1> HIDE DEF q
<1>5. LoginOK(r)' /\ SetupOK(r)'
    BY <1>3, <1>4 DEF LoginOK, SetupOK, LoginPcs
<1>6. UNCHANGED <<auth, profile, moved>>
    BY DEF StartSetup
<1>7. req' = [req EXCEPT ![r] = q]
    BY <1>1 DEF q
<1> QED BY <1>2, <1>5, <1>6, <1>7, NothingMoved, Untouched, RequestStep

LEMMA FindAdminKeeps ==
    ASSUME IInv, NEW r \in Reqs, FindAdmin(r)
    PROVE  IInv'
<1>1. req[r] \in Request /\ req[r].caller \in Uids /\ ~req[r].hadPhone
    BY DEF FindAdmin, IInv, SetupOK, Types
<1>2. CASE Goto(r, "createAdmin")
    <2>1. "createAdmin" \in Pcs \ LoginPcs
        BY DEF Pcs, LoginPcs
    <2>2. req'[r] = [req[r] EXCEPT !.pc = "createAdmin"] /\ moved' = moved
        BY <1>2, <2>1, GoesOn
    <2>3. req'[r].pc = "createAdmin" /\ req'[r].caller = req[r].caller /\ req'[r].hadPhone = req[r].hadPhone
        BY <1>1, <2>2 DEF Request
    <2>4. SetupOK(r)'
        BY <1>1, <2>3 DEF SetupOK
    <2>5. LoginOK(r)'
        BY <2>1, <2>3, SetupOnly
    <2> QED BY <1>2, <2>1, <2>2, <2>4, <2>5, NothingMoved, Untouched, GotoKeeps DEF FindAdmin
<1>3. ASSUME NEW u \in AdminAccount,
             req' = [req EXCEPT ![r].uid = u, ![r].pc = "getProfile", ![r].hadPhone = auth[u].phone # None],
             UNCHANGED moved
      PROVE  IInv'
    <2> DEFINE q == [req[r] EXCEPT !.uid = u, !.pc = "getProfile", !.hadPhone = auth[u].phone # None]
    <2>1. u \in Uids /\ StaffLogin(u) /\ UNCHANGED <<auth, profile>>
        BY DEF AdminAccount, StaffLogin, FindAdmin
    <2>2. req \in [Reqs -> Request]
        BY DEF IInv, Types
    <2>3. q \in Request
        BY <1>1, <2>1 DEF Request, Pcs
    <2>4. /\ q.pc = "getProfile" /\ q.caller = req[r].caller /\ q.uid = u
          /\ q.hadPhone = (auth[u].phone # None)
        BY <1>1 DEF Request
    <2>5. req' = [req EXCEPT ![r] = q] /\ req'[r] = q
        BY <1>3, <2>2
    <2> HIDE DEF q
    <2>6. StaffLogin(u)'
        BY <2>1 DEF StaffLogin
    <2>7. SetupOK(r)'
        BY <1>1, <2>1, <2>4, <2>5, <2>6 DEF SetupOK
    <2>8. LoginOK(r)'
        BY <2>4, <2>5 DEF LoginOK, LoginPcs
    <2> QED BY <1>3, <2>1, <2>3, <2>5, <2>7, <2>8, NothingMoved, Untouched, RequestStep
<1> QED BY <1>2, <1>3 DEF FindAdmin

LEMMA CreateAdminKeeps ==
    ASSUME IInv, NEW r \in Reqs, CreateAdmin(r)
    PROVE  IInv'
<1>1. req[r] \in Request /\ req[r].caller \in Uids /\ ~req[r].hadPhone
    BY DEF CreateAdmin, IInv, SetupOK, Types
<1>2. CASE Goto(r, "findAdmin") /\ UNCHANGED auth
    <2>1. "findAdmin" \in Pcs \ LoginPcs
        BY DEF Pcs, LoginPcs
    <2>2. req'[r] = [req[r] EXCEPT !.pc = "findAdmin"] /\ moved' = moved
        BY <1>2, <2>1, GoesOn
    <2>3. req'[r].pc = "findAdmin" /\ req'[r].caller = req[r].caller /\ req'[r].hadPhone = req[r].hadPhone
        BY <1>1, <2>2 DEF Request
    <2>4. SetupOK(r)'
        BY <1>1, <2>3 DEF SetupOK
    <2>5. LoginOK(r)'
        BY <2>1, <2>3, SetupOnly
    <2> QED BY <1>2, <2>1, <2>2, <2>4, <2>5, NothingMoved, Untouched, GotoKeeps DEF CreateAdmin
<1>3. ASSUME NEW u \in NewUid, auth' = [auth EXCEPT ![u] = Account(None, "adminEmail", "team")],
             Found(r, u, "getProfile")
      PROVE  IInv'
    <2> DEFINE a == Account(None, "adminEmail", "team")
    <2>1. a \in AuthRecord /\ a.phone = None /\ a.login = "adminEmail" /\ a.password = "team"
        BY AccountIs
    <2>2. u \in Uids /\ auth[u] = None /\ profile[u] = None /\ "getProfile" \in Pcs
        BY DEF NewUid, Unused, Pcs, LoginPcs
    <2>3. req'[r] = [req[r] EXCEPT !.uid = u, !.pc = "getProfile"] /\ moved' = moved
        BY <1>3, <2>2, FindsAndGoesOn
    <2>4. /\ req'[r].pc = "getProfile" /\ req'[r].uid = u /\ req'[r].caller = req[r].caller
          /\ req'[r].hadPhone = req[r].hadPhone
        BY <1>1, <2>3 DEF Request
    <2>5. auth' = [auth EXCEPT ![u] = a] /\ profile' = profile
        BY <1>3 DEF CreateAdmin
    <2> HIDE DEF a
    <2>6. AccountsFine' /\ Kept /\ auth'[u] = a /\ a # None
        BY <2>1, <2>2, <2>3, <2>5, FreshAccount
    <2>7. SetupOK(r)'
        BY <1>1, <2>1, <2>2, <2>4, <2>6 DEF SetupOK, StaffLogin
    <2>8. LoginOK(r)'
        BY <2>4 DEF LoginOK, LoginPcs
    <2> QED BY <1>3, <2>2, <2>6, <2>7, <2>8, FoundKeeps
<1> QED BY <1>2, <1>3 DEF CreateAdmin

LEMMA GetProfileKeeps ==
    ASSUME IInv, NEW r \in Reqs, GetProfile(r)
    PROVE  IInv'
<1> DEFINE u == req[r].uid
<1> DEFINE q == [req[r] EXCEPT !.claimed = Claimed(u), !.pc = "update"]
<1>1. /\ req \in [Reqs -> Request] /\ req[r].caller \in Uids /\ u \in Uids /\ StaffLogin(u)
      /\ ~req[r].hadPhone => auth[u].phone = None \/ Attached(u) \/ Edited(u)
    BY DEF GetProfile, IInv, SetupOK, Types
<1>2. q \in Request
    BY <1>1 DEF Request, Pcs, Claimed
<1>3. req' = [req EXCEPT ![r] = q] /\ req'[r] = q
    BY <1>1 DEF GetProfile
<1>4. /\ q.pc = "update" /\ q.uid = u /\ q.caller = req[r].caller /\ q.hadPhone = req[r].hadPhone
      /\ ~q.claimed => RoleOf(u) = "admin"
    BY <1>1 DEF Request, Claimed
<1> HIDE DEF q
<1>5. UNCHANGED <<auth, profile, moved>>
    BY DEF GetProfile
<1>6. /\ req'[r].uid = u
      /\ StaffLogin(u)' /\ RoleOf(u)' = RoleOf(u) /\ Attached(u)' = Attached(u) /\ Edited(u)' = Edited(u)
    BY <1>1, <1>3, <1>4, <1>5 DEF StaffLogin, RoleOf, Attached, Edited
<1>7. SetupOK(r)'
    BY <1>1, <1>3, <1>4, <1>5, <1>6 DEF SetupOK
<1>8. LoginOK(r)'
    BY <1>3, <1>4 DEF LoginOK, LoginPcs
<1> QED BY <1>2, <1>3, <1>5, <1>7, <1>8, NothingMoved, Untouched, RequestStep

\* A step that changes one account that is already there.
LEMMA AccountChanged ==
    ASSUME IInv, NEW u \in Uids, StaffLogin(u), NEW a \in AuthRecord,
           auth' = [auth EXCEPT ![u] = a], profile' = profile, moved' = moved,
           a.login = auth[u].login, auth[u].password = "team" => a.password = "team",
           auth[u].session # "live" => a.session # "live",
           a.phone = auth[u].phone \/ (a.phone = None /\ a.password = "team")
    PROVE  AccountsFine' /\ Kept /\ auth'[u] = a /\ StaffLogin(u)'
<1>1. a # None /\ a.login = "adminEmail"
    BY NoneAssumption DEF StaffLogin
<1>2. auth \in [Uids -> AuthRecord \cup {None}]
    BY DEF IInv, Types, AccountsFine
<1>3. auth'[u] = a /\ \A v \in Uids \ {u} : auth'[v] = auth[v]
    BY <1>2
<1>4. auth' \in [Uids -> AuthRecord \cup {None}]
    BY <1>2
<1>5. AccountsFine'
    BY <1>1, <1>3, <1>4 DEF AccountsFine, IInv, Types
<1>6. ASSUME NEW v \in Uids, v # u
      PROVE  auth'[v] = auth[v]
    BY <1>3, <1>6
<1>7. /\ auth[u] # None /\ auth'[u] # None /\ auth'[u].login = auth[u].login
      /\ auth[u].password = "team" => auth'[u].password = "team"
      /\ auth[u].session # "live" => auth'[u].session # "live"
      /\ auth'[u].phone # auth[u].phone => auth'[u].phone = None /\ auth'[u].password = "team"
    BY <1>1, <1>3 DEF StaffLogin
<1>8. Kept
    BY <1>6, <1>7 DEF Kept
<1> QED BY <1>1, <1>3, <1>5, <1>8 DEF StaffLogin

LEMMA TakeOverKeeps ==
    ASSUME IInv, NEW r \in Reqs, TakeOver(r)
    PROVE  IInv'
<1> DEFINE u == req[r].uid
<1> DEFINE a == [auth[u] EXCEPT !.password = "team", !.phone = IF Dropped(r) THEN None ELSE auth[u].phone]
<1>1. /\ req[r] \in Request /\ req[r].caller \in Uids /\ u \in Uids /\ StaffLogin(u)
      /\ ~req[r].hadPhone => auth[u].phone = None \/ Attached(u) \/ Edited(u)
      /\ ~req[r].claimed => RoleOf(u) = "admin" \/ Edited(u)
    BY DEF TakeOver, IInv, SetupOK, Types
<1>2. auth \in [Uids -> AuthRecord \cup {None}] /\ auth[u] \in AuthRecord
    BY <1>1 DEF IInv, Types, AccountsFine, StaffLogin
<1>3. /\ a \in AuthRecord /\ a.login = auth[u].login /\ a.password = "team"
      /\ auth[u].session # "live" => a.session # "live"
      /\ a.phone = IF Dropped(r) THEN None ELSE auth[u].phone
    BY <1>2 DEF AuthRecord
<1>4. auth' = [auth EXCEPT ![u] = a]
    BY <1>2 DEF TakeOver
<1> HIDE DEF a
<1>5. "revoke" \in Pcs \ LoginPcs
    BY DEF Pcs, LoginPcs
<1>6. req'[r] = [req[r] EXCEPT !.pc = "revoke"] /\ moved' = moved /\ Goto(r, "revoke") /\ profile' = profile
    BY <1>5, GoesOn DEF TakeOver
<1>7. /\ req'[r].pc = "revoke" /\ req'[r].uid = u /\ req'[r].caller = req[r].caller
      /\ req'[r].claimed = req[r].claimed /\ req'[r].hadPhone = req[r].hadPhone
    BY <1>1, <1>6 DEF Request
<1>13. a.phone = auth[u].phone \/ (a.phone = None /\ a.password = "team")
    BY <1>3
<1>8. AccountsFine' /\ Kept /\ auth'[u] = a /\ StaffLogin(u)'
    BY <1>1, <1>3, <1>4, <1>6, <1>7, <1>13, AccountChanged
<1>9. RoleOf(u)' = RoleOf(u) /\ Attached(u)' = Attached(u) /\ Edited(u)' = Edited(u)
    BY <1>6, <1>7 DEF RoleOf, Attached, Edited
<1>10. a.phone = None \/ ~req[r].claimed \/ Attached(u) \/ Edited(u)
    BY <1>1, <1>3 DEF Dropped
<1>11. SetupOK(r)'
    BY <1>1, <1>3, <1>7, <1>8, <1>9, <1>10 DEF SetupOK
<1>12. LoginOK(r)'
    BY <1>5, <1>7, SetupOnly
<1> QED BY <1>5, <1>6, <1>8, <1>11, <1>12, GotoKeeps

LEMMA RevokeKeeps ==
    ASSUME IInv, NEW r \in Reqs, Revoke(r)
    PROVE  IInv'
<1> DEFINE u == req[r].uid
<1> DEFINE a == [auth[u] EXCEPT !.session = IF @ = "live" THEN "token" ELSE @]
<1>1. /\ req[r] \in Request /\ req[r].caller \in Uids /\ u \in Uids /\ StaffLogin(u)
      /\ ~req[r].claimed => RoleOf(u) = "admin" \/ Edited(u)
      /\ auth[u].password = "team"
      /\ auth[u].phone = None \/ ~req[r].claimed \/ Attached(u) \/ Edited(u)
    BY DEF Revoke, IInv, SetupOK, Types
<1>2. auth \in [Uids -> AuthRecord \cup {None}] /\ auth[u] \in AuthRecord
    BY <1>1 DEF IInv, Types, AccountsFine, StaffLogin
<1>3. /\ a \in AuthRecord /\ a.login = auth[u].login /\ a.password = auth[u].password
      /\ a.session # "live"
      /\ a.phone = auth[u].phone
    BY <1>2 DEF AuthRecord
<1>4. auth' = [auth EXCEPT ![u] = a]
    BY <1>2 DEF Revoke
<1> HIDE DEF a
<1>5. "setProfile" \in Pcs \ LoginPcs
    BY DEF Pcs, LoginPcs
<1>6. req'[r] = [req[r] EXCEPT !.pc = "setProfile"] /\ moved' = moved /\ Goto(r, "setProfile") /\ profile' = profile
    BY <1>5, GoesOn DEF Revoke
<1>7. /\ req'[r].pc = "setProfile" /\ req'[r].uid = u /\ req'[r].caller = req[r].caller
      /\ req'[r].claimed = req[r].claimed
    BY <1>1, <1>6 DEF Request
<1>8. AccountsFine' /\ Kept /\ auth'[u] = a /\ StaffLogin(u)'
    BY <1>1, <1>3, <1>4, <1>6, <1>7, AccountChanged
<1>9. RoleOf(u)' = RoleOf(u) /\ Attached(u)' = Attached(u) /\ Edited(u)' = Edited(u)
    BY <1>6, <1>7 DEF RoleOf, Attached, Edited
<1>10. SetupOK(r)'
    BY <1>1, <1>3, <1>7, <1>8, <1>9 DEF SetupOK
<1>11. LoginOK(r)'
    BY <1>5, <1>7, SetupOnly
<1> QED BY <1>5, <1>6, <1>8, <1>10, <1>11, GotoKeeps

LEMMA AdminProfile ==
    ASSUME IInv, NEW u \in Uids
    PROVE  LET d == [role |-> "admin", phone |-> PhoneIn(u)]
               e == [role |-> "admin", phone |-> None] IN
           d \in Profile /\ d # None /\ d.role = "admin" /\ e \in Profile /\ e # None /\ e.role = "admin"
<1>1. PhoneIn(u) \in Phones \cup {None}
    BY DEF PhoneIn, IInv, Types, AccountsFine, Profile
<1> QED BY <1>1, NoneAssumption DEF Profile, Roles

LEMMA SetProfileKeeps ==
    ASSUME IInv, NEW r \in Reqs, SetProfile(r)
    PROVE  IInv'
<1> DEFINE u == req[r].uid
<1> DEFINE d == [role |-> "admin", phone |-> IF req[r].claimed THEN None ELSE PhoneIn(u)]
<1>1. req[r] \in Request /\ req[r].caller \in Uids /\ u \in Uids /\ StaffLogin(u)
    BY DEF SetProfile, IInv, SetupOK, Types
<1>2. d \in Profile /\ d # None /\ d.role = "admin"
    BY <1>1, AdminProfile
<1>3. profile' = [profile EXCEPT ![u] = d] /\ auth' = auth /\ Goto(r, "promote")
    BY DEF SetProfile
<1> HIDE DEF d
<1>4. "promote" \in Pcs \ LoginPcs
    BY DEF Pcs, LoginPcs
<1>5. req'[r] = [req[r] EXCEPT !.pc = "promote"] /\ moved' = moved
    BY <1>3, <1>4, GoesOn
<1>6. req'[r].pc = "promote" /\ req'[r].uid = u /\ req'[r].caller = req[r].caller
    BY <1>1, <1>5 DEF Request
<1>7. profile \in [Uids -> Profile \cup {None}]
    BY DEF IInv, Types, AccountsFine
<1>8. profile'[u] = d /\ \A v \in Uids \ {u} : profile'[v] = profile[v]
    BY <1>1, <1>3, <1>7
<1>9. profile' \in [Uids -> Profile \cup {None}]
    BY <1>2, <1>3, <1>7
<1>10. AccountsFine'
    BY <1>3, <1>9 DEF IInv, Types, AccountsFine
<1>11. ASSUME NEW v \in Uids, profile'[v] # profile[v]
       PROVE  StaffLogin(v) /\ profile'[v] # None /\ profile'[v].role = "admin"
    BY <1>1, <1>2, <1>8, <1>11
<1>12. Kept
    BY <1>3, <1>5, <1>11 DEF Kept
<1>13. StaffLogin(u)'
    BY <1>1, <1>3, <1>6 DEF StaffLogin
<1>14. SetupOK(r)'
    BY <1>1, <1>6, <1>13 DEF SetupOK
<1>15. LoginOK(r)'
    BY <1>4, <1>6, SetupOnly
<1> QED BY <1>3, <1>4, <1>10, <1>12, <1>14, <1>15, GotoKeeps

LEMMA PromoteKeeps ==
    ASSUME IInv, NEW r \in Reqs, Promote(r)
    PROVE  IInv'
<1> DEFINE c == req[r].caller
<1> DEFINE d == [role |-> "admin", phone |-> PhoneIn(c)]
<1>1. CASE ~(c # req[r].uid /\ req[r].promote)
    BY <1>1, EndKeeps DEF Promote
<1>2. CASE c # req[r].uid /\ req[r].promote
    <2>1. req \in [Reqs -> Request] /\ c \in Uids
        BY DEF Promote, IInv, SetupOK, Types
    <2>2. d \in Profile /\ d # None
        BY <2>1, AdminProfile
    <2>3. /\ profile' = [profile EXCEPT ![c] = d] /\ auth' = auth
          /\ req' = [req EXCEPT ![r] = Idle]
          /\ moved' = IF Busy = {r} THEN {} ELSE moved \cup {<<c, "edited">>}
        BY <1>2 DEF Promote
    <2> HIDE DEF d
    <2>4. Idle \in Request /\ req'[r].pc = "idle"
        BY <2>1, <2>3 DEF Idle, Request, Pcs
    <2>5. profile \in [Uids -> Profile \cup {None}]
        BY DEF IInv, Types, AccountsFine
    <2>6. profile' \in [Uids -> Profile \cup {None}] /\ \A v \in Uids \ {c} : profile'[v] = profile[v]
        BY <2>1, <2>2, <2>3, <2>5
    <2>7. AccountsFine'
        BY <2>3, <2>6 DEF IInv, Types, AccountsFine
    <2>8. Busy # {r} => Kept
        BY <2>3, <2>6 DEF Kept, Edited
    <2> QED BY <2>3, <2>4, <2>7, <2>8, IdleIsFine, RequestStep
<1> QED BY <1>1, <1>2

-----------------------------------------------------------------------------
(* The outside world *)

LEMMA OutsideStep ==
    ASSUME IInv, AccountsFine', req' = req, Busy # {} => Kept
    PROVE  IInv'
<1>1. Types'
    BY DEF IInv, Types
<1>2. \A x \in Reqs : req[x].pc # "idle" => Kept
    BY DEF Busy
<1> QED BY <1>1, <1>2, EverybodyStands

LEMMA SignUpKeeps ==
    ASSUME IInv, SignUp
    PROVE  IInv'
<1>1. PICK u \in Unused, login \in {"none", "other", "adminEmail"} :
          /\ auth' = [auth EXCEPT ![u] = Account(None, login, "own")]
          /\ \E p \in Phones \cup {None} : profile' \in {profile, [profile EXCEPT ![u] = NewProfile(u, p)]}
    BY DEF SignUp
<1> DEFINE a == Account(None, login, "own")
<1>2. a \in AuthRecord /\ a.password = "own" /\ a # None
    BY AccountIs, NoneAssumption
<1> HIDE DEF a
<1>3. u \in Uids /\ auth[u] = None /\ profile[u] = None
    BY DEF Unused
<1>4. auth \in [Uids -> AuthRecord \cup {None}] /\ profile \in [Uids -> Profile \cup {None}]
    BY DEF IInv, Types, AccountsFine
<1>5. \A p \in Phones \cup {None} : NewProfile(u, p) \in Profile
    BY DEF NewProfile, Profile, Roles
<1>6. auth' = [auth EXCEPT ![u] = a]
    BY <1>1 DEF a
<1>7. auth'[u] = a /\ \A v \in Uids \ {u} : auth'[v] = auth[v] /\ profile'[v] = profile[v]
    BY <1>1, <1>3, <1>4, <1>6
<1>8. auth' \in [Uids -> AuthRecord \cup {None}] /\ profile' \in [Uids -> Profile \cup {None}]
    BY <1>1, <1>2, <1>4, <1>5, <1>6
<1>9. AccountsFine'
    BY <1>2, <1>7, <1>8 DEF IInv, Types, AccountsFine
<1>10. req' = req /\ moved' = moved
    BY DEF SignUp
<1>11. Kept
    BY <1>3, <1>7, <1>10 DEF Kept
<1> QED BY <1>9, <1>10, <1>11, OutsideStep

LEMMA AttachPhoneKeeps ==
    ASSUME IInv, AttachPhone
    PROVE  IInv'
<1>1. PICK u \in Uids, p \in Phones :
          /\ auth[u] # None /\ auth[u].login # "none"
          /\ auth' = [auth EXCEPT ![u].phone = p]
          /\ Changed(u, "attached")
    BY DEF AttachPhone
<1>2. auth \in [Uids -> AuthRecord \cup {None}] /\ auth[u] \in AuthRecord
    BY <1>1 DEF IInv, Types, AccountsFine
<1>3. /\ auth'[u] = [auth[u] EXCEPT !.phone = p]
      /\ \A v \in Uids \ {u} : auth'[v] = auth[v]
    BY <1>1, <1>2
<1>4. /\ auth'[u] \in AuthRecord /\ auth'[u].login = auth[u].login
      /\ auth'[u].password = auth[u].password /\ auth'[u].session = auth[u].session
    BY <1>2, <1>3 DEF AuthRecord
<1>5. auth' \in [Uids -> AuthRecord \cup {None}]
    BY <1>1, <1>2, <1>3, <1>4
<1>6. req' = req /\ profile' = profile
    BY DEF AttachPhone
<1>7. AccountsFine'
    BY <1>1, <1>3, <1>4, <1>5, <1>6 DEF AccountsFine, IInv, Types
<1>8. auth'[u] # None
    BY <1>4, NoneAssumption
<1>9. Busy # {} => moved' = moved \cup {<<u, "attached">>}
    BY <1>1 DEF Changed
<1>10. ASSUME NEW v \in Uids, v # u
       PROVE  auth'[v] = auth[v]
    BY <1>3, <1>10
<1>11. /\ auth[u].password = "team" => auth'[u].password = "team"
       /\ auth[u].session # "live" => auth'[u].session # "live"
    BY <1>4
<1>12. Busy # {} => Kept
    BY <1>1, <1>4, <1>6, <1>8, <1>9, <1>10, <1>11 DEF Kept, Attached
<1> QED BY <1>6, <1>7, <1>12, OutsideStep

LEMMA TokenExpiresKeeps ==
    ASSUME IInv, TokenExpires
    PROVE  IInv'
<1>1. PICK u \in Uids : auth[u] # None /\ auth' = [auth EXCEPT ![u].session = "none"]
    BY DEF TokenExpires
<1>2. auth \in [Uids -> AuthRecord \cup {None}] /\ auth[u] \in AuthRecord
    BY <1>1 DEF IInv, Types, AccountsFine
<1>3. /\ auth'[u] = [auth[u] EXCEPT !.session = "none"]
      /\ \A v \in Uids \ {u} : auth'[v] = auth[v]
    BY <1>1, <1>2
<1>4. /\ auth'[u] \in AuthRecord /\ auth'[u].login = auth[u].login /\ auth'[u].phone = auth[u].phone
      /\ auth'[u].password = auth[u].password /\ auth'[u].session # "live"
    BY <1>2, <1>3 DEF AuthRecord
<1>5. auth' \in [Uids -> AuthRecord \cup {None}] /\ auth'[u] # None
    BY <1>1, <1>2, <1>3, <1>4, NoneAssumption
<1>6. req' = req /\ profile' = profile /\ moved' = moved
    BY DEF TokenExpires
<1>7. AccountsFine'
    BY <1>1, <1>3, <1>4, <1>5, <1>6 DEF AccountsFine, IInv, Types
<1>8. ASSUME NEW v \in Uids, v # u
      PROVE  auth'[v] = auth[v]
    BY <1>3, <1>8
<1>9. Kept
    BY <1>1, <1>4, <1>5, <1>6, <1>8 DEF Kept
<1> QED BY <1>6, <1>7, <1>9, OutsideStep

\* A profile is written or deleted.
LEMMA ProfileChanged ==
    ASSUME IInv, NEW u \in Uids, NEW d \in Profile \cup {None},
           profile' = [profile EXCEPT ![u] = d], auth' = auth, req' = req,
           \/ profile[u] = None /\ moved' = moved
           \/ Changed(u, "edited")
    PROVE  IInv'
<1>1. profile \in [Uids -> Profile \cup {None}]
    BY DEF IInv, Types, AccountsFine
<1>2. profile' \in [Uids -> Profile \cup {None}] /\ \A v \in Uids \ {u} : profile'[v] = profile[v]
    BY <1>1
<1>3. AccountsFine'
    BY <1>2 DEF IInv, Types, AccountsFine
<1>4. Busy # {} => Kept
    BY <1>2 DEF Kept, Edited, Changed
<1> QED BY <1>3, <1>4, OutsideStep

LEMMA CreateProfileKeeps ==
    ASSUME IInv, CreateProfile
    PROVE  IInv'
<1>1. PICK u \in Uids, p \in Phones \cup {None} :
          profile[u] = None /\ profile' = [profile EXCEPT ![u] = NewProfile(u, p)]
    BY DEF CreateProfile
<1>2. NewProfile(u, p) \in Profile
    BY DEF NewProfile, Profile, Roles
<1>3. auth' = auth /\ req' = req /\ moved' = moved
    BY DEF CreateProfile
<1> QED BY <1>1, <1>2, <1>3, ProfileChanged

LEMMA EditPhoneKeeps ==
    ASSUME IInv, EditPhone
    PROVE  IInv'
<1>1. PICK u \in Uids, p \in Phones \cup {None} :
          /\ profile[u] # None
          /\ profile' = [profile EXCEPT ![u].phone = p]
          /\ Changed(u, "edited")
    BY DEF EditPhone
<1> DEFINE d == [profile[u] EXCEPT !.phone = p]
<1>2. profile \in [Uids -> Profile \cup {None}] /\ profile[u] \in Profile
    BY <1>1 DEF IInv, Types, AccountsFine
<1>3. d \in Profile /\ profile' = [profile EXCEPT ![u] = d]
    BY <1>1, <1>2 DEF Profile
<1> HIDE DEF d
<1>4. auth' = auth /\ req' = req
    BY DEF EditPhone
<1> QED BY <1>1, <1>3, <1>4, ProfileChanged

LEMMA AdminEditsKeeps ==
    ASSUME IInv, AdminEdits
    PROVE  IInv'
<1>1. PICK u \in Uids :
          /\ profile[u] # None
          /\ \/ \E role \in Roles \ {profile[u].role} : profile' = [profile EXCEPT ![u].role = role]
             \/ profile' = [profile EXCEPT ![u] = None]
          /\ Changed(u, "edited")
    BY DEF AdminEdits
<1>2. profile \in [Uids -> Profile \cup {None}] /\ profile[u] \in Profile
    BY <1>1 DEF IInv, Types, AccountsFine
<1>3. PICK d \in Profile \cup {None} : profile' = [profile EXCEPT ![u] = d]
    <2>1. ASSUME NEW role \in Roles, profile' = [profile EXCEPT ![u].role = role]
          PROVE  \E d \in Profile \cup {None} : profile' = [profile EXCEPT ![u] = d]
        <3> DEFINE d == [profile[u] EXCEPT !.role = role]
        <3>1. d \in Profile /\ profile' = [profile EXCEPT ![u] = d]
            BY <1>2, <2>1 DEF Profile
        <3> HIDE DEF d
        <3> QED BY <3>1
    <2> QED BY <1>1, <2>1
<1>4. auth' = auth /\ req' = req
    BY DEF AdminEdits
<1> QED BY <1>1, <1>3, <1>4, ProfileChanged

-----------------------------------------------------------------------------
(* The theorems *)

LEMMA InitIInv ==
    ASSUME Init
    PROVE  IInv
<1>1. Idle \in Request
    BY DEF Idle, Request, Pcs
<1>2. Types
    BY <1>1 DEF Init, Types, AccountsFine
<1>3. ASSUME NEW r \in Reqs
      PROVE  LoginOK(r) /\ SetupOK(r)
    BY DEF Init, Idle, LoginOK, SetupOK, LoginPcs
<1> QED BY <1>2, <1>3 DEF IInv

LEMMA NextIInv ==
    ASSUME IInv, [Next]_vars
    PROVE  IInv'
<1>1. CASE UNCHANGED vars
    BY <1>1 DEF vars, IInv, Types, AccountsFine, LoginOK, SetupOK, Edited, Attached, StaffLogin, Claims, RoleOf
<1>2. ASSUME NEW r \in Reqs, Login(r)
      PROVE  IInv'
    <2>1. Mint(r) => IInv'
        BY EndKeeps DEF Mint
    <2> QED BY <1>2, <2>1, StartLoginKeeps, RegistryKeeps, ProfilesKeeps, GetUserKeeps, CreateAsKeeps,
               LinkKeeps, CreateFreshKeeps, OwnerKeeps DEF Login
<1>3. ASSUME NEW r \in Reqs, Setup(r)
      PROVE  IInv'
    BY <1>3, StartSetupKeeps, FindAdminKeeps, CreateAdminKeeps, GetProfileKeeps, TakeOverKeeps,
       RevokeKeeps, SetProfileKeeps, PromoteKeeps DEF Setup
<1>4. ASSUME NEW r \in Reqs, RequestFails(r)
      PROVE  IInv'
    BY <1>4, EndKeeps DEF RequestFails
<1> QED BY <1>1, <1>2, <1>3, <1>4, SignUpKeeps, AttachPhoneKeeps, CreateProfileKeeps, EditPhoneKeeps,
           AdminEditsKeeps, TokenExpiresKeeps DEF Next

LEMMA AlwaysIInv == Spec => []IInv
BY InitIInv, NextIInv, PTL DEF Spec

\* A phone whose code was right signs in to the account that holds it
\* (phoneAuth.service.js findUidByPhone, signInWithPhone), for any number of
\* sign-ins and set-ups at the same time.
THEOREM PhonesSignInTheirAccount == Spec => []LoginHoldsItsPhone
<1>1. IInv => LoginHoldsItsPhone
    BY DEF IInv, LoginOK, LoginHoldsItsPhone, Edited, Attached
<1> QED BY <1>1, AlwaysIInv, PTL

\* What createOrResetAdmin hands to the team has no password, no renewable session and
\* no phone of whoever had the address before (admin.service.js); an ID token of theirs
\* may be left until it expires (middlewares/auth.js).
THEOREM TheTeamTakesOver == Spec => AdminTakenOver
<1> DEFINE A == \A r \in Reqs : req[r].pc = "setProfile" /\ req'[r].pc = "promote" =>
        LET u == req[r].uid IN
        /\ auth[u].password = "team" /\ auth[u].session # "live"
        /\ \/ auth[u].phone = None \/ RoleOf(u) = "admin"
           \/ {<<u, "edited">>, <<u, "attached">>} \cap moved # {}
<1>1. IInv /\ [Next]_vars => [A]_vars
    BY DEF IInv, SetupOK, Edited, Attached
<1>2. Spec => []IInv
    BY AlwaysIInv
<1> QED BY <1>1, <1>2, PTL DEF Spec, AdminTakenOver

\* Only Link changes an account that is there.
LEMMA LinkOnly ==
    ASSUME IInv, [Next]_vars, NEW r \in Reqs, NEW u \in Uids,
           req[r].pc \in LoginPcs \ {"mint"}, req'[r].pc = "mint", auth[u] # None, auth'[u] # auth[u]
    PROVE  Link(r)
<1>1. req \in [Reqs -> Request] /\ auth \in [Uids -> AuthRecord \cup {None}]
    BY DEF IInv, Types, AccountsFine
<1>2. req'[r] # req[r] /\ req' # req /\ auth' # auth
    OBVIOUS
<1>3. ASSUME NEW x \in Reqs, Login(x) \/ Setup(x) \/ RequestFails(x)
      PROVE  x = r
    <2>1. \E q : req' = [req EXCEPT ![x] = q]
        BY <1>1, <1>3 DEF Login, Setup, RequestFails, End, Goto, Found, StartLogin, Registry, Profiles, GetUser,
           CreateAs, Link, CreateFresh, Owner, Mint, StartSetup, FindAdmin, CreateAdmin, GetProfile, TakeOver,
           Revoke, SetProfile, Promote
    <2> QED BY <1>1, <1>2, <2>1
<1>4. ~Setup(r) /\ ~RequestFails(r)
    BY <1>1, <1>2 DEF Setup, LoginPcs, StartSetup, FindAdmin, CreateAdmin, GetProfile, TakeOver, Revoke, SetProfile,
       Promote, RequestFails
<1>5. ~CreateAs(r) /\ ~CreateFresh(r)
    BY <1>1, <1>2 DEF CreateAs, CreateFresh, NewUid, Unused
<1>6. ~(SignUp \/ AttachPhone \/ CreateProfile \/ EditPhone \/ AdminEdits \/ TokenExpires \/ UNCHANGED vars)
    BY <1>2 DEF SignUp, AttachPhone, CreateProfile, EditPhone, AdminEdits, TokenExpires, vars
<1>7. Login(r)
    BY <1>3, <1>4, <1>6 DEF Next
<1> QED BY <1>2, <1>5, <1>7 DEF Login, StartLogin, Registry, Profiles, GetUser, Owner, Mint

\* No sign-in puts a phone on an account that has another one, another way to sign
\* in, or a role of staff (what findUidByPhone and signInWithPhone refuse).
THEOREM NumbersNeverMove == Spec => NumbersStay
<1> DEFINE A == \A r \in Reqs, u \in Uids :
           req[r].pc \in LoginPcs \ {"mint"} /\ req'[r].pc = "mint"
               /\ auth[u] # None /\ auth'[u] # auth[u] =>
           \/ <<u, "edited">> \in moved
           \/ auth[u].phone = None /\ auth[u].login = "none" /\ RoleOf(u) \notin ELEVATED_ROLES
<1>1. ASSUME IInv, [Next]_vars
      PROVE  A
    <2> SUFFICES ASSUME NEW r \in Reqs, NEW u \in Uids,
                        req[r].pc \in LoginPcs \ {"mint"}, req'[r].pc = "mint", auth[u] # None, auth'[u] # auth[u]
                 PROVE  \/ <<u, "edited">> \in moved
                        \/ auth[u].phone = None /\ auth[u].login = "none" /\ RoleOf(u) \notin ELEVATED_ROLES
        OBVIOUS
    <2>1. Link(r)
        BY <1>1, LinkOnly
    <2>2. req[r].uid = u /\ auth' = [auth EXCEPT ![u].phone = req[r].phone]
        BY <1>1, <2>1 DEF Link, IInv, Types, AccountsFine
    <2>3. Edited(u) \/ (auth[u].phone \in {None, req[r].phone} /\ auth[u].login = "none" /\ Claims(u, req[r].phone))
        BY <1>1, <2>1, <2>2 DEF Link, IInv, LoginOK
    <2>4. auth[u] \in AuthRecord /\ auth'[u] = [auth[u] EXCEPT !.phone = req[r].phone]
        BY <1>1, <2>2 DEF IInv, Types, AccountsFine
    <2>5. auth[u].phone # req[r].phone
        BY <2>4 DEF AuthRecord
    <2> QED BY <2>3, <2>5 DEF Edited, Claims, RoleOf
<1>2. IInv /\ [Next]_vars => [A]_vars
    BY <1>1
<1>3. Spec => []IInv
    BY AlwaysIInv
<1> QED BY <1>2, <1>3, PTL DEF Spec, NumbersStay
=============================================================================
