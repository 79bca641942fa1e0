----------------------------- MODULE Otp_proofs -----------------------------
(***************************************************************************)
(* Proofs about Otp, for every number of codes and requests and for every  *)
(* value of the limits that satisfies its assumptions: IInv is inductive,  *)
(* and the type invariant, the bound on guesses, the limits on messages    *)
(* and the two action properties follow from it.                           *)
(***************************************************************************)
EXTENDS Otp, FiniteSetTheorems, TLAPS

\* The constants have their types.
LEMMA Limits ==
    /\ None \notin Codes
    /\ Ttl \in Nat /\ Day \in Nat /\ Interval \in Nat /\ Timeout \in Nat
    /\ MaxAttempts \in Nat /\ MaxAttempts > 0 /\ MaxTime \in Nat /\ DayStart \in Nat
    /\ Timeout < Interval /\ Interval <= Day
BY LimitsAssumption, DeliveryAssumption

\* A step that only clears the live code keeps the invariant.
LEMMA ClearingKeeps ==
    ASSUME IInv,
           otp' = Cleared(otp),
           UNCHANGED <<now, issued, wrong, logins, today>>,
           req' \in [Reqs -> Request],
           \A q \in Reqs : req'[q].pc # "idle" => req'[q] = req[q]
    PROVE  IInv'
<1>0. TypeOK /\ Spaced /\ FreshUntried /\ InFlight /\ GuessesPerCode
  BY DEF IInv
<1>1. otp' \in OtpDoc /\ otp'.code = None /\ otp'.sends = otp.sends /\ otp'.attempts = 0
  BY <1>0 DEF Cleared, TypeOK, OtpDoc
<1>2. TypeOK'
  BY <1>0, <1>1, Limits DEF TypeOK
<1>3. Spaced' /\ FreshUntried' /\ GuessesPerCode'
  BY <1>0, <1>1 DEF Spaced, FreshUntried, GuessesPerCode, Issued
<1>4. LiveIsLast'
  BY <1>1 DEF LiveIsLast
<1>5. InFlight'
  BY <1>0 DEF InFlight
<1> QED
  BY <1>2, <1>3, <1>4, <1>5 DEF IInv

\* A step that only ends or advances requests keeps the invariant.
LEMMA RequestsKeep ==
    ASSUME IInv,
           UNCHANGED <<now, otp, issued, wrong, logins, today>>,
           req' \in [Reqs -> Request],
           \A q \in Reqs : req'[q].pc # "idle" =>
               req[q].pc # "idle" /\ req'[q].code = req[q].code /\ req'[q].since = req[q].since
    PROVE  IInv'
<1>1. TypeOK /\ Spaced /\ LiveIsLast /\ FreshUntried /\ InFlight /\ GuessesPerCode
  BY DEF IInv
<1>2. TypeOK' /\ Spaced' /\ LiveIsLast' /\ FreshUntried' /\ GuessesPerCode'
  BY <1>1 DEF TypeOK, Spaced, LiveIsLast, FreshUntried, GuessesPerCode, Issued
<1>3. InFlight'
  BY <1>1 DEF InFlight
<1> QED
  BY <1>2, <1>3 DEF IInv

\* The idle request has its type.
LEMMA IdleType == Idle \in Request /\ Idle.pc = "idle"
BY Limits DEF Idle, Request, Time

LEMMA InitInv == Init => IInv
<1> SUFFICES ASSUME Init PROVE IInv
  OBVIOUS
<1>1. TypeOK
  BY Limits, IdleType DEF Init, TypeOK, OtpDoc, Time
<1>2. Spaced /\ LiveIsLast /\ FreshUntried
  BY Limits DEF Init, Spaced, LiveIsLast, FreshUntried, Issued
<1>3. InFlight /\ GuessesPerCode
  BY Limits, IdleType DEF Init, InFlight, GuessesPerCode
<1> QED
  BY <1>1, <1>2, <1>3 DEF IInv

\* A new code: the sends of the last day are remembered, none of them is
\* younger than Interval, so every older code is that far behind.
LEMMA IssueInv ==
    ASSUME IInv, NEW q \in Reqs, NEW c \in Codes, IssueOTP(q, c)
    PROVE  IInv'
<1> DEFINE sends == Since(otp.sends, Day)
<1>0. TypeOK /\ Spaced /\ LiveIsLast /\ FreshUntried /\ InFlight /\ GuessesPerCode
  BY DEF IInv
<1>1. /\ now \in Time /\ now \in Nat /\ now' = now
      /\ otp.sends \subseteq Time
      /\ \A d \in Codes : issued[d] \in Int /\ issued[d] <= now
      /\ DOMAIN issued = Codes
  BY <1>0, Limits DEF TypeOK, OtpDoc, Time, Spaced, IssueOTP
<1>2. /\ otp' = [code |-> c, expires |-> now + Ttl, attempts |-> 0, sends |-> sends \cup {now}]
      /\ issued' = [issued EXCEPT ![c] = now]
      /\ req' = [req EXCEPT ![q] = [pc |-> "deliver", code |-> c, since |-> now]]
      /\ issued[c] = -1
      /\ UNCHANGED <<now, wrong, logins, today>>
  BY DEF IssueOTP, Issued
<1>3. issued'[c] = now /\ \A d \in Codes \ {c} : issued'[d] = issued[d]
  BY <1>1, <1>2
<1>4. sends \subseteq Time /\ now \in Time
  BY <1>1 DEF Since
<1>5. TypeOK'
  <2>1. otp' \in OtpDoc /\ otp'.attempts = 0
    BY <1>1, <1>2, <1>4, Limits DEF OtpDoc
  <2>2. req' \in [Reqs -> Request]
    BY <1>0, <1>1, <1>2 DEF TypeOK, Request
  <2>3. issued' \in [Codes -> Time \cup {-1}]
    BY <1>0, <1>1, <1>2 DEF TypeOK
  <2> QED
    BY <1>0, <1>2, <2>1, <2>2, <2>3, Limits DEF TypeOK
<1>6. \A d \in Codes \ {c} : Issued(d) => issued[d] + Interval <= now
  <2> SUFFICES ASSUME NEW d \in Codes \ {c}, Issued(d), ~(issued[d] + Interval <= now)
               PROVE  FALSE
    BY <1>1, Limits
  <2>1. now - issued[d] < Interval /\ now - issued[d] < Day
    BY <1>1, Limits
  <2>2. issued[d] \in otp.sends
    BY <1>0, <2>1 DEF Spaced
  <2>3. issued[d] \in Since(sends, Interval)
    BY <2>1, <2>2 DEF Since
  <2> QED
    BY <2>3 DEF IssueOTP, MaySend
<1>7. Spaced'
  <2>1. \A d \in Codes : issued'[d] <= now'
    BY <1>1, <1>3
  <2>2. \A d \in Codes : Issued(d)' /\ now' - issued'[d] < Day => issued'[d] \in otp'.sends
    <3> SUFFICES ASSUME NEW d \in Codes, issued'[d] # -1, now - issued'[d] < Day
                 PROVE  issued'[d] \in sends \cup {now}
      BY <1>1, <1>2 DEF Issued
    <3>1. CASE d = c
      BY <1>3, <3>1
    <3>2. CASE d # c
      <4>1. issued'[d] = issued[d]
        BY <1>3, <3>2
      <4>2. issued[d] \in otp.sends
        BY <1>0, <4>1 DEF Spaced, Issued
      <4> QED
        BY <4>1, <4>2 DEF Since
    <3> QED
      BY <3>1, <3>2
  <2>3. \A d, e \in Codes : d # e /\ Issued(d)' /\ Issued(e)' =>
            issued'[d] + Interval <= issued'[e] \/ issued'[e] + Interval <= issued'[d]
    BY <1>0, <1>1, <1>3, <1>6, Limits DEF Spaced, Issued
  <2> QED
    BY <2>1, <2>2, <2>3 DEF Spaced
<1>8. LiveIsLast'
  <2>1. otp'.code = c /\ otp'.expires = now + Ttl /\ otp'.attempts = 0
    BY <1>2
  <2>2. wrong[c] = 0 /\ logins[c] = 0
    BY <1>0, <1>2 DEF FreshUntried, Issued
  <2>3. \A d \in Codes : issued'[d] <= now
    BY <1>1, <1>3
  <2>4. issued'[c] # -1
    BY <1>1, <1>3
  <2> QED
    BY <1>2, <1>3, <2>1, <2>2, <2>3, <2>4 DEF LiveIsLast, Issued
<1>9. FreshUntried' /\ GuessesPerCode'
  BY <1>0, <1>1, <1>2, <1>3 DEF FreshUntried, GuessesPerCode, Issued
<1>10. InFlight'
  <2> SUFFICES ASSUME NEW p \in Reqs, req'[p].pc # "idle"
               PROVE  /\ req'[p].code \in Codes
                      /\ issued'[req'[p].code] = req'[p].since
                      /\ now <= req'[p].since + Timeout
    BY <1>1 DEF InFlight
  <2>1. CASE p = q
    <3>1. req'[p].code = c /\ req'[p].since = now
      BY <1>0, <1>2, <2>1 DEF TypeOK
    <3> QED
      BY <1>1, <1>3, <3>1, Limits
  <2>2. CASE p # q
    <3>1. req'[p] = req[p]
      BY <1>0, <1>2, <2>2 DEF TypeOK
    <3>2. /\ req[p].code \in Codes /\ issued[req[p].code] = req[p].since
          /\ now <= req[p].since + Timeout
      BY <1>0, <3>1 DEF InFlight
    <3>3. req[p].since \in Time
      BY <1>0 DEF TypeOK, Request
    <3>4. req[p].code # c
      BY <1>2, <3>2, <3>3 DEF Time
    <3> QED
      BY <1>3, <3>1, <3>2, <3>4
  <2> QED
    BY <2>1, <2>2
<1> QED
  BY <1>5, <1>7, <1>8, <1>9, <1>10 DEF IInv

LEMMA VerifyWrongInv == ASSUME IInv, VerifyWrong PROVE IInv'
<1>0. TypeOK /\ Spaced /\ LiveIsLast /\ FreshUntried /\ InFlight /\ GuessesPerCode
  BY DEF IInv
<1>1. /\ otp.code \in Codes /\ otp.code # None
      /\ otp.attempts \in Nat /\ otp.attempts < MaxAttempts
      /\ otp \in OtpDoc
      /\ wrong \in [Codes -> Nat]
  BY <1>0 DEF VerifyWrong, Comparable, TypeOK, OtpDoc
<1>2. /\ wrong' = [wrong EXCEPT ![otp.code] = @ + 1]
      /\ UNCHANGED <<now, req, issued, logins>>
  BY DEF VerifyWrong
<1>3. /\ wrong[otp.code] = otp.attempts
      /\ wrong'[otp.code] = otp.attempts + 1
      /\ \A d \in Codes \ {otp.code} : wrong'[d] = wrong[d]
  BY <1>0, <1>1, <1>2 DEF LiveIsLast
<1>4. \/ otp' = Cleared(otp)
      \/ /\ otp' = [otp EXCEPT !.attempts = otp.attempts + 1]
         /\ otp.attempts + 1 < MaxAttempts
  BY <1>1, Limits DEF VerifyWrong, Last, Counted
<1>5. otp' \in OtpDoc /\ otp'.attempts < MaxAttempts /\ otp'.sends = otp.sends
  <2>1. CASE otp' = Cleared(otp)
    <3>1. otp' \in OtpDoc /\ otp'.attempts = 0 /\ otp'.sends = otp.sends
      BY <1>1, <2>1 DEF Cleared, OtpDoc
    <3> QED
      BY <3>1, Limits
  <2>2. CASE otp' = [otp EXCEPT !.attempts = otp.attempts + 1] /\ otp.attempts + 1 < MaxAttempts
    <3>1. otp' \in OtpDoc /\ otp'.attempts = otp.attempts + 1 /\ otp'.sends = otp.sends
      BY <1>1, <2>2 DEF OtpDoc
    <3> QED
      BY <2>2, <3>1
  <2> QED
    BY <1>4, <2>1, <2>2
<1>6. wrong' \in [Codes -> Nat] /\ today' \in Nat
  BY <1>0, <1>1, <1>2 DEF VerifyWrong, TypeOK
<1>7. TypeOK'
  BY <1>0, <1>2, <1>5, <1>6 DEF TypeOK
<1>8. Spaced' /\ InFlight'
  BY <1>0, <1>2, <1>5 DEF Spaced, InFlight, Issued
<1>9. LiveIsLast'
  <2>1. CASE otp' = Cleared(otp)
    BY <1>1, <2>1 DEF Cleared, OtpDoc, LiveIsLast
  <2>2. CASE otp' = [otp EXCEPT !.attempts = otp.attempts + 1]
    <3>1. otp'.code = otp.code /\ otp'.expires = otp.expires /\ otp'.attempts = otp.attempts + 1
      BY <1>1, <2>2 DEF OtpDoc
    <3> QED
      BY <1>0, <1>1, <1>2, <1>3, <3>1 DEF LiveIsLast, Issued
  <2> QED
    BY <1>4, <2>1, <2>2
<1>10. FreshUntried'
  <2>1. Issued(otp.code)
    BY <1>0, <1>1 DEF LiveIsLast
  <2> QED
    BY <1>0, <1>1, <1>2, <1>3, <2>1 DEF FreshUntried, Issued
<1>11. GuessesPerCode'
  BY <1>0, <1>1, <1>3, Limits DEF GuessesPerCode
<1> QED
  BY <1>7, <1>8, <1>9, <1>10, <1>11 DEF IInv

LEMMA VerifyRightInv == ASSUME IInv, VerifyRight PROVE IInv'
<1>0. TypeOK /\ Spaced /\ LiveIsLast /\ FreshUntried /\ InFlight /\ GuessesPerCode
  BY DEF IInv
<1>1. otp.code \in Codes /\ otp \in OtpDoc /\ logins \in [Codes -> Nat]
  BY <1>0 DEF VerifyRight, Comparable, TypeOK, OtpDoc
<1>2. /\ logins' = [logins EXCEPT ![otp.code] = @ + 1]
      /\ otp' = Cleared(otp)
      /\ UNCHANGED <<now, req, issued, wrong, today>>
  BY DEF VerifyRight, Burned
<1>3. otp' \in OtpDoc /\ otp'.code = None /\ otp'.sends = otp.sends /\ otp'.attempts = 0
  BY <1>1, <1>2 DEF Cleared, OtpDoc
<1>4. TypeOK'
  <2>1. logins' \in [Codes -> Nat]
    BY <1>1, <1>2
  <2> QED
    BY <1>0, <1>2, <1>3, <2>1, Limits DEF TypeOK
<1>5. Spaced' /\ InFlight' /\ GuessesPerCode'
  BY <1>0, <1>2, <1>3 DEF Spaced, InFlight, GuessesPerCode, Issued
<1>6. LiveIsLast'
  BY <1>3 DEF LiveIsLast
<1>7. FreshUntried'
  <2>1. Issued(otp.code)
    BY <1>0 DEF LiveIsLast, VerifyRight, Comparable
  <2> QED
    BY <1>0, <1>1, <1>2, <2>1 DEF FreshUntried, Issued
<1> QED
  BY <1>4, <1>5, <1>6, <1>7 DEF IInv

\* Time passes: no delivery is overdue, and old codes only get older.
LEMMA TickInv == ASSUME IInv, Tick PROVE IInv'
<1>0. TypeOK /\ Spaced /\ LiveIsLast /\ FreshUntried /\ InFlight /\ GuessesPerCode
  BY DEF IInv
<1>1. /\ now \in Nat /\ now' = now + 1 /\ now' \in Time
      /\ \A d \in Codes : issued[d] \in Int
      /\ UNCHANGED <<otp, req, issued, wrong, logins, today>>
  BY <1>0, Limits DEF Tick, TypeOK, Time, history
<1>2. TypeOK' /\ LiveIsLast' /\ FreshUntried' /\ GuessesPerCode'
  BY <1>0, <1>1 DEF TypeOK, LiveIsLast, FreshUntried, GuessesPerCode, Issued
<1>3. Spaced'
  BY <1>0, <1>1, Limits DEF Spaced, Issued
<1>4. InFlight'
  <2> SUFFICES ASSUME NEW q \in Reqs, req[q].pc # "idle"
               PROVE  /\ req[q].code \in Codes
                      /\ issued[req[q].code] = req[q].since
                      /\ now + 1 <= req[q].since + Timeout
    BY <1>1 DEF InFlight
  <2>1. req[q].since \in Nat
    BY <1>0, Limits DEF TypeOK, Request, Time
  <2>2. now < req[q].since + Timeout
    BY DEF Tick
  <2> QED
    BY <1>0, <1>1, <2>1, <2>2, Limits DEF InFlight
<1> QED
  BY <1>2, <1>3, <1>4 DEF IInv

LEMMA StepInv == IInv /\ [Next]_vars => IInv'
<1> SUFFICES ASSUME IInv, [Next]_vars PROVE IInv'
  OBVIOUS
<1>0. req \in [Reqs -> Request]
  BY DEF IInv, TypeOK
<1>1. ASSUME NEW q \in Reqs, NEW c \in Codes, IssueOTP(q, c) PROVE IInv'
  BY <1>1, IssueInv
<1>2. ASSUME NEW q \in Reqs, Deliver(q) PROVE IInv'
  <2>1. req' \in [Reqs -> Request]
    BY <1>0, <1>2, IdleType DEF Deliver, Request
  <2>2. \A p \in Reqs : req'[p].pc # "idle" =>
            req[p].pc # "idle" /\ req'[p].code = req[p].code /\ req'[p].since = req[p].since
    BY <1>0, <1>2, IdleType DEF Deliver, Request
  <2> QED
    BY <1>2, <2>1, <2>2, RequestsKeep DEF Deliver, history
<1>3. ASSUME NEW q \in Reqs, ClearOTP(q) PROVE IInv'
  <2>1. req' \in [Reqs -> Request] /\ \A p \in Reqs : req'[p].pc # "idle" => req'[p] = req[p]
    BY <1>0, <1>3, IdleType DEF ClearOTP
  <2>2. CASE otp' = otp
    BY <1>3, <2>1, <2>2, RequestsKeep DEF ClearOTP, history
  <2>3. CASE otp' = Cleared(otp)
    BY <1>3, <2>1, <2>3, ClearingKeeps DEF ClearOTP, history
  <2> QED
    BY <1>3, <2>2, <2>3 DEF ClearOTP
<1>4. CASE Crash
  <2>1. req' \in [Reqs -> Request] /\ \A p \in Reqs : req'[p].pc = "idle"
    BY <1>4, IdleType DEF Crash
  <2> QED
    BY <1>4, <2>1, RequestsKeep DEF Crash, history
<1>5. CASE VerifyStale
  BY <1>0, <1>5, ClearingKeeps DEF VerifyStale, history
<1>6. CASE VerifyWrong
  BY <1>6, VerifyWrongInv
<1>7. CASE VerifyRight
  BY <1>7, VerifyRightInv
<1>8. CASE Tick
  BY <1>8, TickInv
<1>9. CASE UNCHANGED vars
  BY <1>0, <1>9, RequestsKeep DEF vars
<1> QED
  BY <1>1, <1>2, <1>3, <1>4, <1>5, <1>6, <1>7, <1>8, <1>9 DEF Next

\* The inductive invariant holds in every reachable state.
THEOREM Invariance == Spec => []IInv
BY InitInv, StepInv, PTL DEF Spec

\* Types, and the attempts stored stay below the limit.
THEOREM TypeCorrect == Spec => []TypeOK
<1>1. IInv => TypeOK
  BY DEF IInv
<1> QED
  BY <1>1, Invariance, PTL

\* No code is compared with more wrong guesses than the limit in all its life.
THEOREM GuessesAreBounded == Spec => []GuessesPerCode
<1>1. IInv => GuessesPerCode
  BY DEF IInv
<1> QED
  BY <1>1, Invariance, PTL

\* Only verifyOTP with the right guess logs in: the live code is then the last
\* one issued, not expired, and never accepted before.
LEMMA AcceptedStep ==
    ASSUME IInv, [Next]_vars
    PROVE  [\A c \in Codes : logins'[c] # logins[c] =>
                /\ logins[c] = 0
                /\ now <= issued[c] + Ttl
                /\ \A d \in Codes : Issued(d) => issued[d] <= issued[c]]_vars
<1>1. CASE VerifyRight
  <2>0. TypeOK /\ LiveIsLast
    BY DEF IInv
  <2>1. \A c \in Codes : logins'[c] # logins[c] => c = otp.code
    BY <1>1, <2>0 DEF VerifyRight, TypeOK
  <2>2. otp.code # None /\ otp.expires >= now
    BY <1>1 DEF VerifyRight, Comparable
  <2>3. /\ logins[otp.code] = 0 /\ now <= issued[otp.code] + Ttl
        /\ \A d \in Codes : issued[d] <= issued[otp.code]
    BY <2>0, <2>2 DEF LiveIsLast
  <2> QED
    BY <2>1, <2>3
<1>2. CASE ~VerifyRight
  <2>1. UNCHANGED logins
    BY <1>2 DEF Next, vars, IssueOTP, Deliver, ClearOTP, Crash, VerifyStale, VerifyWrong, Tick,
               history
  <2> QED
    BY <2>1
<1> QED
  BY <1>1, <1>2

\* A code logs in at most once, in time, and only while it is the last one.
THEOREM CodesAreAcceptedOnce == Spec => AcceptedOnce
BY Invariance, AcceptedStep, PTL DEF Spec, AcceptedOnce

\* A newer code would have been issued at least Interval after the one whose
\* delivery failed, and the request is not that late.
LEMMA ClearStep ==
    ASSUME IInv, [Next]_vars
    PROVE  [\A q \in Reqs : req[q].pc = "clear" /\ req'[q].pc = "idle" /\ otp'.code # otp.code =>
                otp.code = req[q].code]_vars
<1> SUFFICES ASSUME NEW q \in Reqs, req[q].pc = "clear", req'[q].pc = "idle",
                    otp'.code # otp.code
             PROVE  otp.code = req[q].code
  OBVIOUS
<1>0. TypeOK /\ Spaced /\ LiveIsLast /\ InFlight
  BY DEF IInv
<1>1. \E p \in Reqs : ClearOTP(p)
  <2>1. CASE \E p \in Reqs, c \in Codes : IssueOTP(p, c)
    BY <1>0, <2>1 DEF IssueOTP, TypeOK
  <2>2. CASE VerifyStale \/ VerifyWrong \/ VerifyRight \/ Tick \/ UNCHANGED vars
    BY <2>2 DEF VerifyStale, VerifyWrong, VerifyRight, Tick, vars
  <2>3. CASE Crash \/ \E p \in Reqs : Deliver(p)
    BY <2>3 DEF Crash, Deliver
  <2> QED
    BY <2>1, <2>2, <2>3 DEF Next
<1>2. otp.code # None
  BY <1>0, <1>1 DEF ClearOTP, Cleared, TypeOK, OtpDoc
<1>3. /\ otp.code \in Codes /\ Issued(otp.code)
      /\ \A d \in Codes : issued[d] <= issued[otp.code]
      /\ issued[otp.code] <= now
  BY <1>0, <1>2 DEF LiveIsLast, Spaced, TypeOK, OtpDoc
<1>4. /\ req[q].code \in Codes /\ issued[req[q].code] = req[q].since
      /\ now <= req[q].since + Timeout
  BY <1>0 DEF InFlight
<1>5. /\ now \in Nat /\ req[q].since \in Nat
      /\ issued[otp.code] \in Int
  BY <1>0, <1>3, Limits DEF TypeOK, Request, Time
<1>6. Issued(req[q].code)
  BY <1>4, <1>5 DEF Issued
<1>7. otp.code # req[q].code => issued[req[q].code] + Interval <= issued[otp.code]
  <2> SUFFICES ASSUME otp.code # req[q].code
               PROVE  issued[req[q].code] + Interval <= issued[otp.code]
    OBVIOUS
  <2>1. \/ issued[req[q].code] + Interval <= issued[otp.code]
        \/ issued[otp.code] + Interval <= issued[req[q].code]
    BY <1>0, <1>3, <1>4, <1>6 DEF Spaced
  <2>2. issued[req[q].code] <= issued[otp.code]
    BY <1>3, <1>4
  <2> QED
    BY <1>4, <1>5, <2>1, <2>2, Limits
<1> QED
  BY <1>3, <1>4, <1>5, <1>7, Limits

\* A failed delivery never wipes a newer code.
THEOREM DeliveriesClearTheirOwn == Spec => ClearsOwnCode
BY Invariance, ClearStep, PTL DEF Spec, ClearsOwnCode

-----------------------------------------------------------------------------
(* The limits on messages *)

\* The send history stays within the limits.
SendsOK ==
    /\ Cardinality(Since(otp.sends, Day)) <= MaxSends
    /\ Cardinality(Since(otp.sends, Window)) <= MaxResends

LEMMA SendsFinite ==
    ASSUME TypeOK, NEW age
    PROVE  /\ IsFiniteSet(otp.sends) /\ IsFiniteSet(Since(otp.sends, age))
           /\ Cardinality(Since(otp.sends, age)) \in Nat
<1>1. IsFiniteSet(Time)
  BY FS_Interval, LimitsAssumption DEF Time
<1>2. otp.sends \subseteq Time /\ Since(otp.sends, age) \subseteq otp.sends
  BY DEF TypeOK, OtpDoc, Since
<1> QED
  BY <1>1, <1>2, FS_Subset, FS_CardinalityType

\* A smaller history is within the limits too.
LEMMA FewerSends ==
    ASSUME TypeOK, SendsOK, Since(otp.sends, Day)' \subseteq Since(otp.sends, Day),
           Since(otp.sends, Window)' \subseteq Since(otp.sends, Window)
    PROVE  SendsOK'
<1>1. /\ Cardinality(Since(otp.sends, Day)') <= Cardinality(Since(otp.sends, Day))
      /\ Cardinality(Since(otp.sends, Day)') \in Nat
  BY SendsFinite, FS_Subset, FS_CardinalityType
<1>2. /\ Cardinality(Since(otp.sends, Window)') <= Cardinality(Since(otp.sends, Window))
      /\ Cardinality(Since(otp.sends, Window)') \in Nat
  BY SendsFinite, FS_Subset, FS_CardinalityType
<1>3. /\ Cardinality(Since(otp.sends, Day)) \in Nat
      /\ Cardinality(Since(otp.sends, Window)) \in Nat
  BY SendsFinite
<1>4. MaxSends \in Nat /\ MaxResends \in Nat
  BY LimitsAssumption
<1> QED
  BY <1>1, <1>2, <1>3, <1>4 DEF SendsOK

\* A send is only added while there is room for it.
LEMMA IssueSends ==
    ASSUME IInv, SendsOK, NEW q \in Reqs, NEW c \in Codes, IssueOTP(q, c)
    PROVE  SendsOK'
<1> DEFINE sends == Since(otp.sends, Day)
<1>1. otp'.sends = sends \cup {now} /\ now' = now /\ MaySend(sends)
  BY DEF IssueOTP
<1>2. TypeOK /\ otp.sends \subseteq Nat /\ now \in Nat
  BY LimitsAssumption DEF IInv, TypeOK, OtpDoc, Time
<1>3. IsFiniteSet(sends) /\ Cardinality(sends) \in Nat
  BY <1>2, SendsFinite
<1>4. IsFiniteSet(Since(sends, Window)) /\ Cardinality(Since(sends, Window)) \in Nat
  <2>1. Since(sends, Window) \subseteq sends
    BY DEF Since
  <2> QED
    BY <1>3, <2>1, FS_Subset, FS_CardinalityType
<1>5. Cardinality(sends \cup {now}) <= MaxSends
  BY <1>1, <1>3, FS_AddElement, LimitsAssumption DEF MaySend
<1>6. Cardinality(Since(sends, Window) \cup {now}) <= MaxResends
  <2> DEFINE recent == Since(sends, Window)
  <2>1. Cardinality(recent) < MaxResends /\ MaxResends \in Nat
    BY <1>1, LimitsAssumption DEF MaySend
  <2> HIDE DEF recent
  <2>2. Cardinality(recent \cup {now}) <= Cardinality(recent) + 1
    BY <1>4, FS_AddElement DEF recent
  <2>3. Cardinality(recent) \in Nat /\ Cardinality(recent \cup {now}) \in Nat
    BY <1>4, FS_AddElement, FS_CardinalityType DEF recent
  <2> QED
    BY <2>1, <2>2, <2>3 DEF recent
<1>7. /\ Since(otp.sends, Day)' \subseteq sends \cup {now}
      /\ Since(otp.sends, Window)' \subseteq Since(sends, Window) \cup {now}
  BY <1>1 DEF Since
<1>8. IsFiniteSet(sends \cup {now}) /\ IsFiniteSet(Since(sends, Window) \cup {now})
  BY <1>3, <1>4, FS_AddElement
<1> HIDE DEF sends
<1>9. /\ Cardinality(Since(otp.sends, Day)') <= Cardinality(sends \cup {now})
      /\ Cardinality(Since(otp.sends, Window)') <= Cardinality(Since(sends, Window) \cup {now})
      /\ Cardinality(Since(otp.sends, Day)') \in Nat
      /\ Cardinality(Since(otp.sends, Window)') \in Nat
      /\ Cardinality(sends \cup {now}) \in Nat
      /\ Cardinality(Since(sends, Window) \cup {now}) \in Nat
  BY <1>7, <1>8, FS_Subset, FS_CardinalityType
<1>10. MaxSends \in Nat /\ MaxResends \in Nat
  BY LimitsAssumption
<1> QED
  BY <1>5, <1>6, <1>9, <1>10 DEF SendsOK

LEMMA StepSends == IInv /\ SendsOK /\ [Next]_vars => SendsOK'
<1> SUFFICES ASSUME IInv, SendsOK, [Next]_vars PROVE SendsOK'
  OBVIOUS
<1>1. TypeOK /\ otp.sends \subseteq Nat /\ now \in Nat
  BY LimitsAssumption DEF IInv, TypeOK, OtpDoc, Time
<1>2. ASSUME otp'.sends = otp.sends, now' = now PROVE SendsOK'
  <2>1. Since(otp.sends, Day)' = Since(otp.sends, Day) /\ Since(otp.sends, Window)' = Since(otp.sends, Window)
    BY <1>2 DEF Since
  <2> QED
    BY <1>1, <2>1, FewerSends
<1>3. CASE Tick
  <2>1. otp' = otp /\ now' = now + 1
    BY <1>3 DEF Tick
  <2>2. /\ Since(otp.sends, Day)' \subseteq Since(otp.sends, Day)
        /\ Since(otp.sends, Window)' \subseteq Since(otp.sends, Window)
    BY <1>1, <2>1, LimitsAssumption DEF Since
  <2> QED
    BY <1>1, <2>2, FewerSends
<1>4. ASSUME otp' \in {otp, Cleared(otp)} PROVE otp'.sends = otp.sends
  BY <1>4, <1>1 DEF Cleared, TypeOK, OtpDoc
<1>5. ASSUME NEW q \in Reqs, Deliver(q) \/ ClearOTP(q) PROVE SendsOK'
  BY <1>2, <1>4, <1>5 DEF Deliver, ClearOTP
<1>6. CASE Crash \/ VerifyStale \/ VerifyRight
  BY <1>2, <1>4, <1>6 DEF Crash, VerifyStale, VerifyRight, Burned
<1>7. CASE VerifyWrong
  <2>1. otp' = Cleared(otp) \/ otp'.sends = otp.sends
    BY <1>1, <1>7 DEF VerifyWrong, TypeOK, OtpDoc
  <2> QED
    BY <1>2, <1>4, <1>7, <2>1 DEF VerifyWrong
<1>8. CASE UNCHANGED vars
  BY <1>2, <1>8 DEF vars
<1> QED
  BY <1>3, <1>5, <1>6, <1>7, <1>8, IssueSends DEF Next

\* The messages of a span that reaches back no further than a day are different
\* sends of the history.
LEMMA MessagesAreSends ==
    ASSUME IInv, NEW span \in Nat, span <= Day
    PROVE  /\ Cardinality(IssuedWithin(span)) <= Cardinality(Since(otp.sends, span))
           /\ IsFiniteSet(IssuedWithin(span))
<1> DEFINE S == IssuedWithin(span)
<1> DEFINE T == Since(otp.sends, span)
<1> DEFINE f == [c \in S |-> issued[c]]
<1>1. \A c \in S : c \in Codes /\ Issued(c) /\ now - issued[c] < span /\ issued[c] \in Int
  BY DEF IssuedWithin, IInv, TypeOK, Time
<1>2. now \in Nat /\ Day \in Nat
  BY LimitsAssumption DEF IInv, TypeOK, Time
<1>3. \A c \in S : issued[c] \in T
  BY <1>1, <1>2 DEF IInv, Spaced, Since
<1>4. \A c, d \in S : issued[c] = issued[d] => c = d
  BY <1>1, Limits DEF IInv, Spaced
<1> HIDE DEF S, T
<1>5. f \in Injection(S, T)
  BY <1>3, <1>4 DEF Injection, IsInjective
<1>6. IsFiniteSet(T)
  BY SendsFinite DEF IInv, T
<1> QED
  BY <1>5, <1>6, FS_Injection DEF S, T

\* In every rolling day, window and resend interval the phone gets no more
\* (paid) messages than issueOTP's limits, whatever is guessed, used, cleared or
\* crashes in between (otp.service.js): clearing a code keeps the send history.
THEOREM MessagesAreLimited == Spec => []SendLimits
<1>1. Init => SendsOK
  <2>1. Init => Since(otp.sends, Day) = {} /\ Since(otp.sends, Window) = {}
    BY DEF Init, Since
  <2> QED
    BY <2>1, FS_EmptySet, LimitsAssumption DEF SendsOK
<1>2. IInv /\ SendsOK => SendLimits
  <2> SUFFICES ASSUME IInv, SendsOK PROVE SendLimits
    OBVIOUS
  <2>1. Cardinality(IssuedWithin(Day)) <= MaxSends
    <3>1. /\ Cardinality(IssuedWithin(Day)) <= Cardinality(Since(otp.sends, Day))
          /\ Cardinality(IssuedWithin(Day)) \in Nat
      BY MessagesAreSends, FS_CardinalityType, LimitsAssumption
    <3> QED
      BY <3>1, SendsFinite, LimitsAssumption DEF SendsOK, IInv
  <2>2. Cardinality(IssuedWithin(Window)) <= MaxResends
    <3>1. /\ Cardinality(IssuedWithin(Window)) <= Cardinality(Since(otp.sends, Window))
          /\ Cardinality(IssuedWithin(Window)) \in Nat
      BY MessagesAreSends, FS_CardinalityType, LimitsAssumption, DeliveryAssumption
    <3> QED
      BY <3>1, SendsFinite, LimitsAssumption DEF SendsOK, IInv
  <2>3. Cardinality(IssuedWithin(Interval)) <= 1
    <3>1. \A c, d \in IssuedWithin(Interval) : c = d
      BY Limits DEF IssuedWithin, IInv, Spaced, TypeOK, Time
    <3>2. CASE IssuedWithin(Interval) = {}
      BY <3>2, FS_EmptySet
    <3>3. CASE IssuedWithin(Interval) # {}
      <4>1. PICK c : IssuedWithin(Interval) = {c}
        BY <3>1, <3>3
      <4>2. Cardinality({c}) = 1
        BY FS_Singleton
      <4> QED
        BY <4>1, <4>2
    <3> QED
      BY <3>2, <3>3
  <2> QED
    BY <2>1, <2>2, <2>3 DEF SendLimits
<1> QED
  BY <1>1, <1>2, StepSends, Invariance, PTL DEF Spec

-----------------------------------------------------------------------------
(* The guesses of a day *)

\* The codes issued in the day whose guesses are counted.
InDay(t) == t \in DayStart..(DayStart + Day - 1)
DayCodes == {c \in Codes : InDay(issued[c])}

\* The invariant behind GuessesPerDay: the live code has used its attempts only, and
\* every code of the day before it, and the one that the day began with, all of theirs.
DayOK ==
    /\ IsFiniteSet(DayCodes) /\ Cardinality(DayCodes) <= MaxSends
    /\ now < DayStart => today = 0
    /\ today <= Cardinality(DayCodes) * MaxAttempts + MaxAttempts
    /\ now < DayStart + Day /\ otp.code # None =>
           today <= Cardinality(DayCodes) * MaxAttempts + otp.attempts

LEMMA MoreCodes ==
    ASSUME NEW n \in Nat, NEW k \in Nat, n <= k
    PROVE  /\ n * MaxAttempts \in Nat /\ k * MaxAttempts \in Nat
           /\ (n + 1) * MaxAttempts = n * MaxAttempts + MaxAttempts
           /\ n * MaxAttempts <= k * MaxAttempts
BY Limits

LEMMA DayTypes ==
    ASSUME IInv
    PROVE  /\ now \in Nat /\ today \in Nat /\ otp.attempts \in Nat /\ otp.attempts < MaxAttempts
           /\ \A c \in Codes : issued[c] \in Int /\ issued[c] <= now
           /\ MaxSends \in Nat
BY LimitsAssumption DEF IInv, TypeOK, OtpDoc, Time, Spaced

\* While the day lasts, its codes are among those of the last Day.
FewCodes == now < DayStart + Day => IsFiniteSet(DayCodes) /\ Cardinality(DayCodes) <= MaxSends

LEMMA DayCodesFew == IInv /\ SendLimits => FewCodes
<1> SUFFICES ASSUME IInv, SendLimits, now < DayStart + Day
             PROVE  IsFiniteSet(DayCodes) /\ Cardinality(DayCodes) <= MaxSends
  BY DEF FewCodes
<1>1. DayCodes \subseteq IssuedWithin(Day)
  BY DayTypes, Limits DEF DayCodes, InDay, IssuedWithin, Issued
<1>2. IsFiniteSet(IssuedWithin(Day))
  BY MessagesAreSends, Limits
<1>3. /\ Cardinality(DayCodes) <= Cardinality(IssuedWithin(Day)) /\ IsFiniteSet(DayCodes)
      /\ Cardinality(DayCodes) \in Nat /\ Cardinality(IssuedWithin(Day)) \in Nat
  BY <1>1, <1>2, FS_Subset, FS_CardinalityType
<1> QED
  BY <1>3, DayTypes DEF SendLimits

\* A step that neither issues a code nor compares one with a guess.
LEMMA DayKept ==
    ASSUME IInv, IInv', DayOK, issued' = issued, today' = today, now' >= now,
           otp'.code # None => otp'.code = otp.code /\ otp'.attempts = otp.attempts
    PROVE  DayOK'
<1>1. DayCodes' = DayCodes
  BY DEF DayCodes, InDay
<1>2. now \in Nat /\ now' \in Nat
  BY DayTypes, LimitsAssumption DEF IInv, TypeOK, Time
<1> QED
  BY <1>1, <1>2, Limits DEF DayOK

LEMMA DayIssue ==
    ASSUME IInv, IInv', FewCodes', DayOK, NEW q \in Reqs, NEW c \in Codes, IssueOTP(q, c)
    PROVE  DayOK'
<1>1. /\ now' = now /\ today' = today /\ otp'.attempts = 0
      /\ issued' = [issued EXCEPT ![c] = now] /\ issued[c] = -1
  BY DEF IssueOTP, Issued
<1>2. issued \in [Codes -> Time \cup {-1}]
  BY DEF IInv, TypeOK
<1>3. c \notin DayCodes /\ DayCodes' = IF InDay(now) THEN DayCodes \cup {c} ELSE DayCodes
  BY <1>1, <1>2, Limits DEF DayCodes, InDay
<1>4. PICK n : n = Cardinality(DayCodes)
  OBVIOUS
<1>5. n \in Nat
  BY <1>4, FS_CardinalityType DEF DayOK
<1>6. CASE InDay(now)
  <2>1. IsFiniteSet(DayCodes') /\ Cardinality(DayCodes') = n + 1
    BY <1>3, <1>4, <1>6, FS_AddElement DEF DayOK
  <2>2. now < DayStart + Day /\ ~(now < DayStart)
    BY <1>6, DayTypes, Limits DEF InDay
  <2>3. (IsFiniteSet(DayCodes) /\ Cardinality(DayCodes) <= MaxSends)'
    BY <1>1, <2>2 DEF FewCodes
  <2>4. today <= (n + 1) * MaxAttempts
    BY <1>4, <1>5, MoreCodes DEF DayOK
  <2>5. (n + 1) * MaxAttempts \in Nat /\ today \in Nat
    BY <1>5, MoreCodes, DayTypes
  <2> QED
    BY <1>1, <2>1, <2>2, <2>3, <2>4, <2>5, Limits DEF DayOK
<1>7. CASE ~InDay(now)
  <2>1. DayCodes' = DayCodes
    BY <1>3, <1>7
  <2>2. now < DayStart \/ ~(now < DayStart + Day)
    BY <1>7, DayTypes, Limits DEF InDay
  <2>3. now < DayStart => today = 0
    BY DEF DayOK
  <2>4. n * MaxAttempts \in Nat
    BY <1>5, MoreCodes
  <2> QED
    BY <1>1, <1>4, <2>1, <2>2, <2>3, <2>4, Limits DEF DayOK
<1> QED
  BY <1>6, <1>7

LEMMA DayWrong ==
    ASSUME IInv, IInv', DayOK, VerifyWrong
    PROVE  DayOK'
<1>1. /\ now' = now /\ issued' = issued /\ otp.code # None /\ DayCodes' = DayCodes
      /\ today' = IF InDay(now) THEN today + 1 ELSE today
  BY DEF VerifyWrong, Comparable, DayCodes, InDay
<1>2. \/ otp'.code = None
      \/ otp'.code = otp.code /\ otp'.attempts = otp.attempts + 1
  BY DEF VerifyWrong, Counted, Cleared, IInv, TypeOK, OtpDoc
<1>3. PICK n : n = Cardinality(DayCodes)
  OBVIOUS
<1>4. PICK k : k = n * MaxAttempts
  OBVIOUS
<1>5. k \in Nat
  BY <1>3, <1>4, MoreCodes, FS_CardinalityType DEF DayOK
<1>6. InDay(now) <=> ~(now < DayStart) /\ now < DayStart + Day
  BY DayTypes, Limits DEF InDay
<1> QED
  BY <1>1, <1>2, <1>3, <1>4, <1>5, <1>6, DayTypes, Limits DEF DayOK

LEMMA DayStep == IInv /\ IInv' /\ FewCodes' /\ DayOK /\ [Next]_vars => DayOK'
<1> SUFFICES ASSUME IInv, IInv', FewCodes', DayOK, [Next]_vars PROVE DayOK'
  OBVIOUS
<1>0. otp \in OtpDoc /\ now \in Nat
  BY DayTypes DEF IInv, TypeOK
<1>1. ASSUME otp' \in {otp, Cleared(otp)} PROVE otp'.code # None => otp' = otp
  BY <1>0, <1>1 DEF Cleared, OtpDoc
<1>2. ASSUME NEW q \in Reqs, Deliver(q) \/ ClearOTP(q) PROVE DayOK'
  BY <1>0, <1>1, <1>2, DayKept DEF Deliver, ClearOTP, history
<1>3. CASE Crash \/ VerifyStale \/ VerifyRight
  BY <1>0, <1>1, <1>3, DayKept DEF Crash, VerifyStale, VerifyRight, Burned, history
<1>4. CASE Tick
  BY <1>0, <1>4, DayKept DEF Tick, history
<1>5. CASE UNCHANGED vars
  BY <1>0, <1>5, DayKept DEF vars
<1> QED
  BY <1>2, <1>3, <1>4, <1>5, DayIssue, DayWrong DEF Next

\* "10 codes x 5 attempts a day", with the attempts of the code that the day began with:
\* however codes are asked for, guessed, cleared and used, no day sees more wrong guesses.
THEOREM GuessesOfADay == Spec => []GuessesPerDay
<1>1. Init => DayOK
  <2> SUFFICES ASSUME Init PROVE DayOK
    OBVIOUS
  <2>1. DayCodes = {}
    BY Limits DEF Init, DayCodes, InDay
  <2>2. IsFiniteSet(DayCodes) /\ Cardinality(DayCodes) = 0
    BY <2>1, FS_EmptySet
  <2> QED
    BY <2>2, LimitsAssumption DEF Init, DayOK
<1>2. IInv /\ DayOK => GuessesPerDay
  <2> SUFFICES ASSUME IInv, DayOK PROVE GuessesPerDay
    OBVIOUS
  <2>1. PICK n : n = Cardinality(DayCodes)
    OBVIOUS
  <2>2. n \in Nat /\ n <= MaxSends /\ today <= n * MaxAttempts + MaxAttempts
    BY <2>1, FS_CardinalityType DEF DayOK
  <2>3. /\ n * MaxAttempts <= MaxSends * MaxAttempts /\ n * MaxAttempts \in Nat
        /\ MaxSends * MaxAttempts \in Nat
        /\ (MaxSends + 1) * MaxAttempts = MaxSends * MaxAttempts + MaxAttempts
    BY <2>2, MoreCodes, DayTypes
  <2> QED
    BY <2>2, <2>3, DayTypes, Limits DEF GuessesPerDay
<1> QED
  BY <1>1, <1>2, DayStep, DayCodesFew, Invariance, MessagesAreLimited, PTL DEF Spec
=============================================================================
