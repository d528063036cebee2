----------------------------- MODULE AccountsProofs -----------------------------
(***************************************************************************)
(* The properties of Accounts, for every number of members, calls,         *)
(* processes and tokens, and for every value of the limits.                *)
(*                                                                         *)
(* The argument about sessions rests on SessionInv: the token of a session *)
(* has never been exchanged and its family has not ended; a family belongs *)
(* to one member; and the token of a login whose answer is still on its    *)
(* way is known to nobody, so that sending the script of that login again  *)
(* cannot bring back a token that was exchanged.                           *)
(***************************************************************************)
EXTENDS Accounts, FiniteSetTheorems, TLAPS

Hashes      == {"legacy", "current"}
SignupSteps == {"hashing", "insert"}
LoginSteps  == {"limit", "read", "verifying", "rehash", "rehashing", "upgrade", "mark", "issue"}
(* Steps that only a login reaches that found a hash. *)
PastVerify  == {"rehash", "rehashing", "upgrade", "mark"}

SignupCalls == [step : SignupSteps, member : Members]
LoginCalls  == [step : LoginSteps, member : Members, client : Clients, allowed : BOOLEAN,
                hash : Hashes \cup {NoHash}, seen : BOOLEAN]
IssuedCalls == [step : {"issued"}, member : Members, token : Nat]
ShownCalls  == [step : {"shown"}, member : Members, token : Nat, next : Nat,
                result : {"rotated", "replayed", "invalid"}]

CallTyped ==
  call \in [Calls -> {Idle} \cup SignupCalls \cup LoginCalls \cup IssuedCalls \cup ShownCalls]

MemberInv ==
  /\ member \in [Members -> [hash : Hashes \cup {NoHash}, seen : BOOLEAN]]
  /\ firsts \in [Members -> Nat]
  /\ FirstLoginOnce
  /\ \A m \in Members : member[m].hash = NoHash => ~member[m].seen
  /\ \A c \in Calls : call[c] \in LoginCalls =>
       /\ call[c].hash # NoHash => member[call[c].member].hash # NoHash
       /\ call[c].step \in PastVerify => call[c].hash # NoHash

PlaceInv == active \in [Processes -> Nat] /\ PlacesComeBack

TokenTyped ==
  /\ session \in [Members -> [family : Nat, token : Nat] \cup {NoSession}]
  /\ used \in [0 .. MaxTokens -> Nat]
  /\ tokens \in Seq([member : Members, family : Nat, shown : 0 .. 2, rotated : Nat])
  /\ Len(tokens) <= MaxTokens
  /\ given \subseteq Made
  /\ dead \subseteq Made

(* A family is the history of one member's session. *)
FamiliesFit ==
  /\ \A t \in Made : tokens[t].family <= Len(tokens) /\ tokens[t].rotated <= 1
  /\ \A t \in 0 .. MaxTokens : used[t] # NoFamily => t \in Made /\ tokens[t].family = used[t]
  /\ \A t, u \in Made :
       tokens[t].family = tokens[u].family /\ tokens[t].family # Legacy =>
         tokens[t].member = tokens[u].member

(* The token of a session is fresh, and the other tokens of its family     *)
(* were used by being shown.                                               *)
SessionsFit ==
  \A m \in Members : session[m] # NoSession =>
    /\ session[m].token \in Made /\ session[m].family \notin dead
    /\ tokens[session[m].token].member = m
    /\ tokens[session[m].token].family = session[m].family
    /\ tokens[session[m].token].rotated = 0
    /\ \A t \in Made :
         used[t] # NoFamily /\ used[t] = session[m].family /\ t # session[m].token =>
           tokens[t].shown >= 1

(* A token on its way to a client is the only one of its family; a token   *)
(* that was exchanged for the next stays exchanged.                        *)
AnswersPending ==
  /\ \A c \in Calls : At(c, "issued") =>
       /\ call[c].token \in Made \ given /\ call[c].token \notin dead
       /\ tokens[call[c].token].member = call[c].member
       /\ tokens[call[c].token].rotated = 0
       /\ \A t \in Made : tokens[t].family = call[c].token <=> t = call[c].token
  /\ \A c, d \in Calls : At(c, "issued") /\ At(d, "issued") /\ c # d =>
       call[c].token # call[d].token
  /\ \A c \in Calls : At(c, "shown") /\ call[c].result = "rotated" =>
       /\ call[c].token \in Made /\ call[c].next \in Made
       /\ tokens[call[c].token].rotated = 1
       /\ \A d \in Calls : At(d, "issued") => call[d].token # call[c].next

SessionInv == TokenTyped /\ FamiliesFit /\ SessionsFit /\ AnswersPending

AccountInv == CallTyped /\ MemberInv /\ PlaceInv /\ SessionInv

-----------------------------------------------------------------------------
(* The steps of a call. *)

LEMMA StepTyped ==
  ASSUME NEW r \in LoginCalls, NEW s \in LoginSteps
  PROVE  /\ [r EXCEPT !.step = s] \in LoginCalls
         /\ [r EXCEPT !.step = s].step = s
         /\ [r EXCEPT !.step = s].member = r.member
         /\ [r EXCEPT !.step = s].hash = r.hash
BY DEF LoginCalls

LEMMA KindOfCall ==
  ASSUME CallTyped, NEW c \in Calls
  PROVE  /\ call[c].step \in SignupSteps <=> call[c] \in SignupCalls
         /\ call[c].step \in LoginSteps <=> call[c] \in LoginCalls
         /\ call[c].step = "issued" <=> call[c] \in IssuedCalls
         /\ call[c].step = "shown" <=> call[c] \in ShownCalls
         /\ call[c].step = "idle" <=> call[c] = Idle
<1>1. call[c] \in {Idle} \cup SignupCalls \cup LoginCalls \cup IssuedCalls \cup ShownCalls
  BY DEF CallTyped
<1>2. Idle.step = "idle"
  BY DEF Idle
<1>3. /\ \A r \in SignupCalls : r.step \in SignupSteps
      /\ \A r \in LoginCalls : r.step \in LoginSteps
      /\ \A r \in IssuedCalls : r.step = "issued"
      /\ \A r \in ShownCalls : r.step = "shown"
  BY DEF SignupCalls, LoginCalls, IssuedCalls, ShownCalls
<1> QED
  BY <1>1, <1>2, <1>3 DEF SignupSteps, LoginSteps

LEMMA GotoEffect ==
  ASSUME CallTyped, NEW c \in Calls, NEW next, Goto(c, next)
  PROVE  call'[c] = next /\ \A d \in Calls : d # c => call'[d] = call[d]
BY DEF CallTyped, Goto

Records == {Idle} \cup SignupCalls \cup LoginCalls \cup IssuedCalls \cup ShownCalls

LEMMA GotoTyped ==
  ASSUME CallTyped, NEW c \in Calls, NEW next \in Records, Goto(c, next)
  PROVE  CallTyped'
BY DEF CallTyped, Goto, Records

(* Admission and derivation: which step the call is at afterwards. *)
LEMMA AdmitEffect ==
  ASSUME CallTyped, NEW c \in Calls, NEW next, Admit(c, next)
  PROVE  /\ call'[c] \in {next, Idle}
         /\ \A d \in Calls : d # c => call'[d] = call[d]
         /\ next \in Records => CallTyped'
<1>1. Goto(c, next) \/ Goto(c, Idle)
  BY DEF Admit, End
<1>2. Idle \in Records
  BY DEF Records
<1> QED
  BY <1>1, <1>2, GotoEffect, GotoTyped

LEMMA DerivedEffect ==
  ASSUME CallTyped, NEW c \in Calls, NEW outcomes, Derived(c, outcomes)
  PROVE  /\ call'[c] \in outcomes \cup {Idle}
         /\ \A d \in Calls : d # c => call'[d] = call[d]
         /\ outcomes \subseteq Records => CallTyped'
<1>1. PICK next \in outcomes \cup {Idle} : Goto(c, next)
  BY DEF Derived
<1>2. Idle \in Records
  BY DEF Records
<1> QED
  BY <1>1, <1>2, GotoEffect, GotoTyped

(* The steps of a call that touch no session, with what each does to it.   *)
(* A call goes from one record to another as the table of steps says; it   *)
(* keeps its member and, from the verification on, its hash.               *)
LEMMA SignupEffect ==
  ASSUME CallTyped, NEW c \in Calls, NEW m \in Members, Signup(c, m)
  PROVE  /\ CallTyped' /\ call'[c] \in SignupCalls \cup {Idle}
         /\ \A d \in Calls : d # c => call'[d] = call[d]
<1> DEFINE next == [step |-> "hashing", member |-> m]
<1>1. next \in SignupCalls /\ next \in Records
  BY DEF SignupCalls, SignupSteps, Records
<1>2. Admit(c, next)
  BY DEF Signup
<1> HIDE DEF next
<1> QED
  BY <1>1, <1>2, AdmitEffect

LEMMA HashedEffect ==
  ASSUME CallTyped, NEW c \in Calls, Hashed(c)
  PROVE  /\ CallTyped' /\ call'[c] \in SignupCalls \cup {Idle}
         /\ \A d \in Calls : d # c => call'[d] = call[d]
<1>1. call[c] \in SignupCalls
  BY KindOfCall DEF Hashed, At, SignupSteps
<1>2. Step(c, "insert") \in SignupCalls
  BY <1>1 DEF Step, SignupCalls, SignupSteps
<1>3. Derived(c, {Step(c, "insert")})
  BY DEF Hashed
<1> QED
  BY <1>2, <1>3, DerivedEffect DEF Records

LEMMA LoginEffect ==
  ASSUME CallTyped, NEW c \in Calls, NEW m \in Members, NEW a \in Clients, Login(c, m, a)
  PROVE  /\ CallTyped' /\ call'[c] \in LoginCalls
         /\ call'[c].step = "limit" /\ call'[c].hash = NoHash
         /\ \A d \in Calls : d # c => call'[d] = call[d]
<1> DEFINE next == [step |-> "limit", member |-> m, client |-> a,
                    allowed |-> attempts[m] < AccountLimit, hash |-> NoHash, seen |-> FALSE]
<1>1. (attempts[m] < AccountLimit) \in BOOLEAN
  OBVIOUS
<1>2. next \in LoginCalls /\ next \in Records
  BY <1>1 DEF LoginCalls, LoginSteps, Records
<1>3. Goto(c, next) /\ next.step = "limit" /\ next.hash = NoHash
  BY DEF Login
<1> HIDE DEF next
<1> QED
  BY <1>2, <1>3, GotoEffect, GotoTyped

(* A step of a login: the call ends or goes on, for the same member and    *)
(* with the same hash.                                                     *)
GoesOn(c, steps) ==
  call'[c] = Idle \/ \E s \in steps : call'[c] = Step(c, s)

LEMMA LoginStepEffect ==
  ASSUME CallTyped, NEW c \in Calls, call[c] \in LoginCalls,
         \/ LimitClient(c) \/ Verified(c) \/ Rehash(c) \/ Rehashed(c) \/ Upgrade(c)
         \/ MarkLogin(c)
  PROVE  /\ CallTyped' /\ GoesOn(c, LoginSteps)
         /\ \A d \in Calls : d # c => call'[d] = call[d]
<1>0. \A s \in LoginSteps : Step(c, s) \in Records
  BY StepTyped DEF Step, Records
<1>1. Idle \in Records
  BY DEF Records
<1>2. ASSUME NEW s \in LoginSteps, Goto(c, Step(c, s)) \/ Goto(c, Idle)
      PROVE  /\ CallTyped' /\ GoesOn(c, LoginSteps)
             /\ \A d \in Calls : d # c => call'[d] = call[d]
  BY <1>0, <1>1, <1>2, GotoEffect, GotoTyped DEF GoesOn
<1>3. CASE LimitClient(c)
  <2>1. Goto(c, Step(c, "read")) \/ Goto(c, Idle)
    BY <1>3 DEF LimitClient
  <2> QED
    BY <2>1, <1>2 DEF LoginSteps
<1>4. CASE Verified(c)
  <2>1. PICK s \in LoginSteps : Goto(c, Step(c, s)) \/ Goto(c, Idle)
    BY <1>4 DEF Verified, Derived, LoginSteps
  <2> QED
    BY <2>1, <1>2
<1>5. CASE Rehash(c)
  <2>1. Goto(c, Step(c, "rehashing")) \/ Goto(c, Idle)
    BY <1>5 DEF Rehash, Admit, End
  <2> QED
    BY <2>1, <1>2 DEF LoginSteps
<1>6. CASE Rehashed(c)
  <2>1. Goto(c, Step(c, "upgrade")) \/ Goto(c, Idle)
    BY <1>6 DEF Rehashed, Derived
  <2> QED
    BY <2>1, <1>2 DEF LoginSteps
<1>7. CASE Upgrade(c)
  <2>1. Goto(c, Step(c, "mark"))
    BY <1>7 DEF Upgrade
  <2> QED
    BY <2>1, <1>2 DEF LoginSteps
<1>8. CASE MarkLogin(c)
  <2>1. Goto(c, Step(c, "issue"))
    BY <1>8 DEF MarkLogin
  <2> QED
    BY <2>1, <1>2 DEF LoginSteps
<1> QED
  BY <1>3, <1>4, <1>5, <1>6, <1>7, <1>8

-----------------------------------------------------------------------------
(* Places for key derivations. *)

DerivingAt(p) == {c \in Calls : Home[c] = p /\ call[c].step \in Deriving}

LEMMA DerivingFinite ==
  ASSUME NEW p
  PROVE  IsFiniteSet(DerivingAt(p)) /\ Cardinality(DerivingAt(p)) \in Nat
<1>1. DerivingAt(p) \in SUBSET Calls
  BY DEF DerivingAt
<1> QED
  BY <1>1, AccountAssumption, FS_Subset, FS_CardinalityType

LEMMA PlacesKept ==
  ASSUME PlaceInv, UNCHANGED active,
         \A c \in Calls : call'[c].step \in Deriving <=> call[c].step \in Deriving
  PROVE  PlaceInv'
<1>1. \A p \in Processes : DerivingAt(p)' = DerivingAt(p)
  BY DEF DerivingAt
<1> QED
  BY <1>1 DEF PlaceInv, PlacesComeBack, DerivingAt

LEMMA GotoPlaces ==
  ASSUME PlaceInv, CallTyped, UNCHANGED active, NEW c \in Calls, NEW next, Goto(c, next),
         call[c].step \notin Deriving, next.step \notin Deriving
  PROVE  PlaceInv'
BY GotoEffect, PlacesKept

LEMMA AdmitPlaces ==
  ASSUME PlaceInv, CallTyped, NEW c \in Calls, NEW next, Admit(c, next),
         call[c].step \notin Deriving, next.step \in Deriving
  PROVE  PlaceInv'
<1> DEFINE h == Home[c]
<1>0. h \in Processes
  BY DEF Processes
<1>1. CASE active[h] < Capacity /\ Goto(c, next) /\ active' = [active EXCEPT ![h] = @ + 1]
  <2>1. DerivingAt(h)' = DerivingAt(h) \cup {c} /\ c \notin DerivingAt(h)
    BY <1>1, GotoEffect DEF DerivingAt
  <2>2. Cardinality(DerivingAt(h)') = Cardinality(DerivingAt(h)) + 1
    BY <2>1, DerivingFinite, FS_AddElement
  <2>3. \A p \in Processes : p # h => DerivingAt(p)' = DerivingAt(p)
    BY <1>1, GotoEffect DEF DerivingAt
  <2>4. \A p \in Processes : active[p] = Cardinality(DerivingAt(p)) /\ active[p] <= Capacity
    BY DEF PlaceInv, PlacesComeBack, DerivingAt
  <2>5. \A p \in Processes :
          active'[p] = Cardinality(DerivingAt(p)') /\ active'[p] <= Capacity
    <3> TAKE p \in Processes
    <3>1. CASE p = h
      BY <3>1, <1>1, <2>2, <2>4, <1>0, AccountAssumption DEF PlaceInv
    <3>2. CASE p # h
      BY <3>2, <1>1, <2>3, <2>4, <1>0 DEF PlaceInv
    <3> QED
      BY <3>1, <3>2
  <2>6. active' \in [Processes -> Nat]
    BY <1>1, <1>0 DEF PlaceInv
  <2> QED
    BY <2>5, <2>6 DEF PlaceInv, PlacesComeBack, DerivingAt
<1>2. CASE Goto(c, Idle) /\ UNCHANGED active
  <2>1. Idle.step \notin Deriving
    BY DEF Idle, Deriving
  <2> QED
    BY <1>2, <2>1, GotoPlaces
<1> QED
  BY <1>1, <1>2 DEF Admit, End

LEMMA DerivedPlaces ==
  ASSUME PlaceInv, CallTyped, NEW c \in Calls, NEW outcomes, Derived(c, outcomes),
         call[c].step \in Deriving, \A next \in outcomes : next.step \notin Deriving
  PROVE  PlaceInv'
<1> DEFINE h == Home[c]
<1>0. h \in Processes
  BY DEF Processes
<1>1. PICK next \in outcomes \cup {Idle} :
        active' = [active EXCEPT ![h] = @ - 1] /\ Goto(c, next)
  BY DEF Derived
<1>2. next.step \notin Deriving
  BY DEF Idle, Deriving
<1>3. DerivingAt(h)' = DerivingAt(h) \ {c} /\ c \in DerivingAt(h)
  BY <1>1, <1>2, GotoEffect DEF DerivingAt
<1>4. Cardinality(DerivingAt(h)') = Cardinality(DerivingAt(h)) - 1
  BY <1>3, DerivingFinite, FS_RemoveElement
<1>5. \A p \in Processes : p # h => DerivingAt(p)' = DerivingAt(p)
  BY <1>1, <1>2, GotoEffect DEF DerivingAt
<1>6. \A p \in Processes : active[p] = Cardinality(DerivingAt(p)) /\ active[p] <= Capacity
  BY DEF PlaceInv, PlacesComeBack, DerivingAt
<1>7. Cardinality(DerivingAt(h)') \in Nat
  <2>1. IsFiniteSet(DerivingAt(h)')
    BY <1>3, DerivingFinite, FS_RemoveElement
  <2> QED
    BY <2>1, FS_CardinalityType
<1>8. \A p \in Processes :
        /\ active'[p] = Cardinality(DerivingAt(p)') /\ active'[p] <= Capacity
        /\ active'[p] \in Nat
  <2> TAKE p \in Processes
  <2>1. CASE p = h
    BY <2>1, <1>1, <1>4, <1>6, <1>7, <1>0, AccountAssumption DEF PlaceInv
  <2>2. CASE p # h
    BY <2>2, <1>1, <1>5, <1>6, <1>0 DEF PlaceInv
  <2> QED
    BY <2>1, <2>2
<1>9. active' \in [Processes -> Nat]
  BY <1>1, <1>8 DEF PlaceInv
<1> QED
  BY <1>8, <1>9 DEF PlaceInv, PlacesComeBack, DerivingAt

-----------------------------------------------------------------------------
(* Members. *)

LEMMA NotLogin ==
  ASSUME NEW r \in {Idle} \cup SignupCalls \cup IssuedCalls \cup ShownCalls
  PROVE  r \notin LoginCalls
<1>1. r.step \in {"idle", "issued", "shown"} \cup SignupSteps
  BY DEF Idle, SignupCalls, IssuedCalls, ShownCalls
<1>2. \A q \in LoginCalls : q.step \in LoginSteps
  BY DEF LoginCalls
<1> QED
  BY <1>1, <1>2 DEF SignupSteps, LoginSteps

(* What MemberInv says of one login that is under way. *)
LoginFits(r, table) ==
  /\ r.hash # NoHash => table[r.member].hash # NoHash
  /\ r.step \in PastVerify => r.hash # NoHash

LEMMA MemberKept ==
  ASSUME MemberInv, UNCHANGED <<member, firsts>>, NEW c \in Calls,
         \A d \in Calls : d # c => call'[d] = call[d],
         call'[c] \in LoginCalls => LoginFits(call'[c], member)
  PROVE  MemberInv'
BY DEF MemberInv, LoginFits, FirstLoginOnce

LEMMA InsertMember ==
  ASSUME CallTyped, MemberInv, NEW c \in Calls, Insert(c)
  PROVE  MemberInv'
<1>1. call[c].member \in Members
  BY KindOfCall DEF Insert, At, SignupSteps, SignupCalls
<1>2. call'[c] = Idle /\ \A d \in Calls : d # c => call'[d] = call[d]
  BY GotoEffect DEF Insert, End
<1>3. Idle \notin LoginCalls
  BY NotLogin
<1>4. CASE member[call[c].member].hash = NoHash
  <2>1. member' = [member EXCEPT ![call[c].member] = [hash |-> "current", seen |-> FALSE]]
    BY <1>4 DEF Insert
  <2>2. \A m \in Members : member[m].hash # NoHash => member'[m].hash # NoHash
    BY <2>1, <1>1, AccountAssumption DEF MemberInv
  <2>3. member' \in [Members -> [hash : Hashes \cup {NoHash}, seen : BOOLEAN]]
    BY <2>1, <1>1 DEF MemberInv, Hashes
  <2>4. \A m \in Members : member'[m].seen = member[m].seen
    BY <2>1, <1>1, <1>4 DEF MemberInv
  <2>5. \A m \in Members : member'[m].hash = NoHash => ~member'[m].seen
    BY <2>1, <1>1, <2>4, AccountAssumption DEF MemberInv
  <2>6. \A d \in Calls : call[d] \in LoginCalls => call[d].member \in Members
    BY DEF LoginCalls
  <2>7. firsts' = firsts
    BY DEF Insert
  <2> QED
    BY <2>2, <2>3, <2>4, <2>5, <2>6, <2>7, <1>2, <1>3 DEF MemberInv, FirstLoginOnce
<1>5. CASE member[call[c].member].hash # NoHash
  BY <1>5, <1>2, <1>3, MemberKept DEF Insert
<1> QED
  BY <1>4, <1>5

LEMMA UpgradeMember ==
  ASSUME CallTyped, MemberInv, NEW c \in Calls, call[c] \in LoginCalls, Upgrade(c)
  PROVE  MemberInv'
<1> DEFINE n == call[c].member
<1>1. n \in Members /\ call[c].hash # NoHash
  BY DEF MemberInv, LoginCalls, Upgrade, At, PastVerify
<1>2. call'[c] = Step(c, "mark") /\ \A d \in Calls : d # c => call'[d] = call[d]
  BY GotoEffect DEF Upgrade
<1>3. call'[c].step = "mark" /\ call'[c].member = n /\ call'[c].hash = call[c].hash
  BY <1>2, StepTyped DEF Step, LoginSteps
<1>4. member' \in [Members -> [hash : Hashes \cup {NoHash}, seen : BOOLEAN]]
  BY <1>1 DEF MemberInv, Upgrade, Hashes
<1>5. \A m \in Members : member'[m].seen = member[m].seen
  BY <1>1 DEF MemberInv, Upgrade
<1>6. \A m \in Members : (member'[m].hash = NoHash) <=> (member[m].hash = NoHash)
  BY <1>1, AccountAssumption DEF MemberInv, Upgrade
<1>7. firsts' = firsts
  BY DEF Upgrade
<1>8. \A d \in Calls : call[d] \in LoginCalls => call[d].member \in Members
  BY DEF LoginCalls
<1> QED
  BY <1>1, <1>2, <1>3, <1>4, <1>5, <1>6, <1>7, <1>8 DEF MemberInv, FirstLoginOnce

LEMMA MarkLoginMember ==
  ASSUME CallTyped, MemberInv, NEW c \in Calls, call[c] \in LoginCalls, MarkLogin(c)
  PROVE  MemberInv'
<1> DEFINE n == call[c].member
<1>1. n \in Members /\ call[c].hash # NoHash /\ member[n].hash # NoHash
  BY DEF MemberInv, LoginCalls, MarkLogin, At, PastVerify
<1>2. call'[c] = Step(c, "issue") /\ \A d \in Calls : d # c => call'[d] = call[d]
  BY GotoEffect DEF MarkLogin
<1>3. call'[c].step = "issue" /\ call'[c].member = n /\ call'[c].hash = call[c].hash
  BY <1>2, StepTyped DEF Step, LoginSteps
<1>4. member' \in [Members -> [hash : Hashes \cup {NoHash}, seen : BOOLEAN]]
  BY <1>1 DEF MemberInv, MarkLogin
<1>5. \A m \in Members : /\ member'[m].hash = member[m].hash
                         /\ member'[m].seen = (IF m = n THEN TRUE ELSE member[m].seen)
  BY <1>1 DEF MemberInv, MarkLogin
<1>6. /\ firsts' \in [Members -> Nat]
      /\ \A m \in Members :
           firsts'[m] = IF m = n /\ ~member[m].seen THEN firsts[m] + 1 ELSE firsts[m]
  BY <1>1 DEF MemberInv, MarkLogin, IsFirst
<1>7. \A m \in Members : firsts[m] = (IF member[m].seen THEN 1 ELSE 0)
  BY DEF MemberInv, FirstLoginOnce
<1>8. FirstLoginOnce'
  <2> SUFFICES ASSUME NEW m \in Members
               PROVE  firsts'[m] = (IF member'[m].seen THEN 1 ELSE 0)
    BY DEF FirstLoginOnce
  <2>1. CASE m # n
    BY <2>1, <1>5, <1>6, <1>7
  <2>2. CASE m = n /\ member[m].seen
    BY <2>2, <1>5, <1>6, <1>7
  <2>3. CASE m = n /\ ~member[m].seen
    <3>1. firsts'[m] = firsts[m] + 1 /\ firsts[m] = 0 /\ member'[m].seen
      BY <2>3, <1>5, <1>6, <1>7
    <3> QED
      BY <3>1
  <2> QED
    BY <2>1, <2>2, <2>3
<1>9. \A d \in Calls : call[d] \in LoginCalls => call[d].member \in Members
  BY DEF LoginCalls
<1> QED
  <2>1. \A m \in Members : member'[m].hash = NoHash => ~member'[m].seen
    BY <1>1, <1>5 DEF MemberInv
  <2>2. \A d \in Calls : call'[d] \in LoginCalls =>
          /\ call'[d].hash # NoHash => member'[call'[d].member].hash # NoHash
          /\ call'[d].step \in PastVerify => call'[d].hash # NoHash
    <3> TAKE d \in Calls
    <3>1. CASE d = c
      BY <3>1, <1>1, <1>3, <1>5
    <3>2. CASE d # c
      BY <3>2, <1>2, <1>5, <1>9 DEF MemberInv
    <3> QED
      BY <3>1, <3>2
  <2> QED
    BY <2>1, <2>2, <1>4, <1>6, <1>8 DEF MemberInv

LEMMA ReadMemberEffect ==
  ASSUME CallTyped, MemberInv, NEW c \in Calls, call[c] \in LoginCalls, ReadMember(c)
  PROVE  /\ CallTyped' /\ call'[c] \in LoginCalls \cup {Idle}
         /\ \A d \in Calls : d # c => call'[d] = call[d]
         /\ MemberInv' /\ (PlaceInv => PlaceInv')
<1> DEFINE n == call[c].member
           next == [call[c] EXCEPT !.step = "verifying", !.hash = member[n].hash,
                                   !.seen = member[n].seen]
<1>1. n \in Members
  BY DEF LoginCalls
<1>2. member[n].hash \in Hashes \cup {NoHash} /\ member[n].seen \in BOOLEAN
  BY <1>1 DEF MemberInv
<1>3. /\ next \in LoginCalls /\ next.step = "verifying"
      /\ next.member = n /\ next.hash = member[n].hash
  <2> DEFINE h == member[n].hash
             b == member[n].seen
  <2>1. h \in Hashes \cup {NoHash} /\ b \in BOOLEAN /\ call[c] \in LoginCalls
    BY <1>2
  <2>2. next = [call[c] EXCEPT !.step = "verifying", !.hash = h, !.seen = b]
    OBVIOUS
  <2> HIDE DEF h, b
  <2>3. ASSUME NEW q, q = [call[c] EXCEPT !.step = "verifying", !.hash = h, !.seen = b]
        PROVE  /\ q \in LoginCalls /\ q.step = "verifying"
               /\ q.member = call[c].member /\ q.hash = h
    <3> DEFINE r == call[c]
    <3>1. r \in LoginCalls /\ q = [r EXCEPT !.step = "verifying", !.hash = h, !.seen = b]
      BY <2>1, <2>3
    <3> HIDE DEF r
    <3>2. /\ q \in LoginCalls /\ q.step = "verifying"
          /\ q.member = r.member /\ q.hash = h
      BY <3>1, <2>1 DEF LoginCalls, LoginSteps
    <3> QED
      BY <3>2 DEF r
  <2> HIDE DEF next
  <2>4. /\ next \in LoginCalls /\ next.step = "verifying"
        /\ next.member = call[c].member /\ next.hash = h
    BY <2>2, <2>3
  <2> QED
    BY <2>4 DEF h
<1>4. Admit(c, next) /\ call[c].step = "read" /\ UNCHANGED <<member, firsts>>
  BY DEF ReadMember, At
<1> HIDE DEF next
<1>5. /\ CallTyped' /\ call'[c] \in {next, Idle}
      /\ \A d \in Calls : d # c => call'[d] = call[d]
  BY <1>3, <1>4, AdmitEffect DEF Records
<1>6. LoginFits(next, member)
  BY <1>3 DEF LoginFits, PastVerify
<1>7. Idle \notin LoginCalls
  BY NotLogin
<1>8. MemberInv'
  BY <1>4, <1>5, <1>6, <1>7, MemberKept
<1>9. PlaceInv => PlaceInv'
  BY <1>3, <1>4, AdmitPlaces DEF Deriving
<1> QED
  BY <1>3, <1>5, <1>8, <1>9

LEMMA LoginStepInv ==
  ASSUME CallTyped, MemberInv, PlaceInv, NEW c \in Calls, call[c] \in LoginCalls,
         \/ LimitClient(c) \/ Verified(c) \/ Rehash(c) \/ Rehashed(c) \/ Upgrade(c)
         \/ MarkLogin(c)
  PROVE  MemberInv' /\ PlaceInv'
<1>1. \A s \in LoginSteps : /\ Step(c, s).step = s /\ Step(c, s).member = call[c].member
                            /\ Step(c, s).hash = call[c].hash
  BY StepTyped DEF Step
<1>2. LoginFits(call[c], member)
  BY DEF MemberInv, LoginFits
<1>3. Idle.step \notin Deriving /\ Idle \notin LoginCalls
  BY NotLogin DEF Idle, Deriving
<1>4. ASSUME NEW s \in LoginSteps, call'[c] \in {Step(c, s), Idle},
             \A d \in Calls : d # c => call'[d] = call[d],
             s \in PastVerify => call[c].hash # NoHash, UNCHANGED <<member, firsts>>
      PROVE  MemberInv'
  <2>1. LoginFits(Step(c, s), member)
    BY <1>1, <1>2, <1>4 DEF LoginFits
  <2> QED
    BY <2>1, <1>3, <1>4, MemberKept
<1>5. CASE LimitClient(c)
  <2>1. /\ call[c].step = "limit" /\ UNCHANGED <<member, firsts, active>>
        /\ Goto(c, Step(c, "read")) \/ Goto(c, Idle)
    BY <1>5 DEF LimitClient, At
  <2>2. "read" \in LoginSteps \ PastVerify /\ call[c].step \notin Deriving
    BY <2>1 DEF LoginSteps, PastVerify, Deriving
  <2>3. PlaceInv'
    BY <2>1, <2>2, <1>1, <1>3, GotoPlaces DEF Deriving
  <2> QED
    BY <2>1, <2>2, <2>3, <1>4, GotoEffect
<1>6. CASE Verified(c)
  <2> DEFINE steps == IF call[c].hash = NoHash THEN {}
                      ELSE IF call[c].hash = "current" THEN {"mark"} ELSE {"rehash"}
             outcomes == {Step(c, s) : s \in steps}
  <2>1. Derived(c, outcomes) /\ call[c].step = "verifying" /\ UNCHANGED <<member, firsts>>
    BY <1>6 DEF Verified, At
  <2>2. /\ steps \subseteq {"mark", "rehash"} /\ steps \subseteq LoginSteps
        /\ \A s \in steps : call[c].hash # NoHash
    BY DEF LoginSteps
  <2> HIDE DEF steps
  <2>3. \A next \in outcomes : next.step \notin Deriving
    <3> TAKE next \in outcomes
    <3>1. PICK s \in steps : next = Step(c, s)
      OBVIOUS
    <3>2. next.step = s /\ s \in {"mark", "rehash"}
      BY <3>1, <2>2, <1>1
    <3> QED
      BY <3>2 DEF Deriving
  <2>4. call[c].step \in Deriving
    BY <2>1 DEF Deriving
  <2>5. PlaceInv'
    BY <2>1, <2>3, <2>4, DerivedPlaces
  <2>6. /\ call'[c] \in outcomes \cup {Idle}
        /\ \A d \in Calls : d # c => call'[d] = call[d]
    BY <2>1, DerivedEffect
  <2>7. CASE call'[c] = Idle
    <3>1. call'[c] \notin LoginCalls
      BY <2>7, <1>3
    <3> QED
      BY <3>1, <2>1, <2>5, <2>6, MemberKept
  <2>8. CASE call'[c] \in outcomes
    <3>1. PICK s \in steps : call'[c] = Step(c, s)
      BY <2>8
    <3> QED
      BY <3>1, <2>1, <2>2, <2>5, <2>6, <1>4
  <2> QED
    BY <2>5, <2>6, <2>7, <2>8
<1>7. CASE Rehash(c)
  <2>1. /\ Admit(c, Step(c, "rehashing")) /\ call[c].step = "rehash"
        /\ UNCHANGED <<member, firsts>>
    BY <1>7 DEF Rehash, At
  <2>2. "rehashing" \in LoginSteps /\ "rehash" \in PastVerify /\ "rehash" \notin Deriving
    BY DEF LoginSteps, PastVerify, Deriving
  <2>3. PlaceInv'
    BY <2>1, <2>2, <1>1, AdmitPlaces DEF Deriving
  <2> QED
    BY <2>1, <2>2, <2>3, <1>2, <1>4, AdmitEffect DEF LoginFits
<1>8. CASE Rehashed(c)
  <2>1. /\ Derived(c, {Step(c, "upgrade")}) /\ call[c].step = "rehashing"
        /\ UNCHANGED <<member, firsts>>
    BY <1>8 DEF Rehashed, At
  <2>2. /\ "upgrade" \in LoginSteps /\ "rehashing" \in PastVerify
        /\ "rehashing" \in Deriving /\ "upgrade" \notin Deriving
    BY DEF LoginSteps, PastVerify, Deriving
  <2>3. PlaceInv'
    BY <2>1, <2>2, <1>1, DerivedPlaces
  <2> QED
    BY <2>1, <2>2, <2>3, <1>2, <1>4, DerivedEffect DEF LoginFits
<1>9. CASE Upgrade(c)
  <2>1. /\ Goto(c, Step(c, "mark")) /\ call[c].step = "upgrade" /\ UNCHANGED active
    BY <1>9 DEF Upgrade, At
  <2> QED
    BY <2>1, <1>9, <1>1, UpgradeMember, GotoPlaces DEF Deriving, LoginSteps
<1>10. CASE MarkLogin(c)
  <2>1. /\ Goto(c, Step(c, "issue")) /\ call[c].step = "mark" /\ UNCHANGED active
    BY <1>10 DEF MarkLogin, At
  <2> QED
    BY <2>1, <1>10, <1>1, MarkLoginMember, GotoPlaces DEF Deriving, LoginSteps
<1> QED
  BY <1>5, <1>6, <1>7, <1>8, <1>9, <1>10

-----------------------------------------------------------------------------
(* Sessions. *)

LEMMA SessionKept ==
  ASSUME SessionInv, UNCHANGED <<session, used, tokens, given, dead>>,
         \A c \in Calls : call'[c].step \in {"issued", "shown"} => call'[c] = call[c]
  PROVE  SessionInv'
<1>1. TokenTyped' /\ FamiliesFit' /\ SessionsFit'
  BY DEF SessionInv, TokenTyped, FamiliesFit, SessionsFit, Made
<1>2. AnswersPending'
  BY DEF SessionInv, AnswersPending, At, Made
<1> QED
  BY <1>1, <1>2 DEF SessionInv

TokenRecords == [member : Members, family : Nat, shown : 0 .. 2, rotated : Nat]

LEMMA TokensAre ==
  ASSUME TokenTyped
  PROVE  /\ Len(tokens) \in Nat /\ Made = 1 .. Len(tokens)
         /\ Made \subseteq 0 .. MaxTokens /\ MaxTokens \in Nat
         /\ \A t \in Made : tokens[t] \in TokenRecords
<1>1. tokens \in Seq(TokenRecords) /\ Len(tokens) <= MaxTokens
  BY DEF TokenTyped, TokenRecords
<1>2. Len(tokens) \in Nat /\ \A t \in 1 .. Len(tokens) : tokens[t] \in TokenRecords
  BY <1>1
<1> QED
  BY <1>1, <1>2, AccountAssumption DEF Made

(* The effect of Marked: the token of the session it replaces is used. *)
LEMMA MarkedEffect ==
  ASSUME SessionInv, NEW m \in Members
  PROVE  /\ Marked(m) \in [0 .. MaxTokens -> Nat]
         /\ \A t \in 0 .. MaxTokens :
              \/ Marked(m)[t] = used[t]
              \/ /\ session[m] # NoSession /\ t = session[m].token /\ t \in Made
                 /\ Marked(m)[t] = session[m].family /\ session[m].family # Legacy
<1>1. session[m] # NoSession =>
        session[m].token \in Made /\ session[m].token \in 0 .. MaxTokens /\ session[m].family \in Nat
  BY TokensAre DEF SessionInv, SessionsFit, TokenTyped
<1>2. used \in [0 .. MaxTokens -> Nat]
  BY DEF SessionInv, TokenTyped
<1> QED
  BY <1>1, <1>2 DEF Marked

(* A login's script, the first time and when it is sent again: t is the    *)
(* only token of its family and fresh.                                     *)
LEMMA IssuedFit ==
  ASSUME SessionInv, NEW m \in Members, NEW t \in Made', TokenTyped', Issued(m, t, t),
         UNCHANGED dead, t \notin dead,
         \A u \in Made : tokens'[u] = tokens[u],
         \A u \in Made' : u \in Made \/ u = t,
         Made \subseteq Made',
         tokens'[t].member = m, tokens'[t].rotated = 0,
         \A u \in Made' : tokens'[u].family = t <=> u = t
  PROVE  FamiliesFit' /\ SessionsFit'
<1> USE DEF NoFamily, Legacy
<1>0. /\ Len(tokens) \in Nat /\ Made = 1 .. Len(tokens) /\ Made \subseteq 0 .. MaxTokens
      /\ Len(tokens)' \in Nat /\ Made' = 1 .. Len(tokens)' /\ Made' \subseteq 0 .. MaxTokens
      /\ Len(tokens) <= Len(tokens)'
  <2>1. TokenTyped
    BY DEF SessionInv
  <2>2. Len(tokens)' \in Nat /\ Len(tokens)' <= MaxTokens
    BY DEF TokenTyped
  <2>3. Len(tokens) <= Len(tokens)'
    BY <2>1, <2>2, TokensAre DEF Made
  <2> QED
    BY <2>1, <2>2, <2>3, TokensAre, AccountAssumption DEF Made
<1>1. /\ \A u \in Made : tokens[u].family <= Len(tokens) /\ tokens[u].rotated <= 1
      /\ \A u \in 0 .. MaxTokens : used[u] # 0 => u \in Made /\ tokens[u].family = used[u]
      /\ \A u, v \in Made : tokens[u].family = tokens[v].family /\ tokens[u].family # 0 =>
           tokens[u].member = tokens[v].member
  BY DEF SessionInv, FamiliesFit
<1>2. \A n \in Members : session[n] # NoSession =>
        /\ session[n].token \in Made /\ session[n].family \notin dead
        /\ tokens[session[n].token].member = n
        /\ tokens[session[n].token].family = session[n].family
        /\ tokens[session[n].token].rotated = 0
        /\ \A u \in Made :
             used[u] # 0 /\ used[u] = session[n].family /\ u # session[n].token =>
               tokens[u].shown >= 1
  BY DEF SessionInv, SessionsFit
<1>3. /\ session'[m].token = t /\ session'[m].family = t
      /\ \A n \in Members : n # m => session'[n] = session[n]
  BY DEF Issued, SessionInv, TokenTyped
<1>4. \A u \in 0 .. MaxTokens :
        \/ used'[u] = used[u]
        \/ /\ session[m] # NoSession /\ u = session[m].token /\ u \in Made
           /\ used'[u] = session[m].family /\ session[m].family # 0
  BY MarkedEffect DEF Issued
<1>5. \A u \in 0 .. MaxTokens : used'[u] # 0 => u \in Made /\ tokens[u].family = used'[u]
  BY <1>1, <1>2, <1>4
<1>6. \A u \in Made' : tokens'[u].family <= Len(tokens)' /\ tokens'[u].rotated <= 1
  <2> TAKE u \in Made'
  <2>1. CASE u = t
    BY <2>1, <1>0
  <2>2. CASE u # t
    <3>1. u \in Made /\ tokens'[u] = tokens[u]
      BY <2>2
    <3>2. tokens[u].family \in Nat
      BY <3>1, TokensAre DEF SessionInv, TokenRecords
    <3> QED
      BY <3>1, <3>2, <1>0, <1>1
  <2> QED
    BY <2>1, <2>2
<1>7. \A u, v \in Made' :
        tokens'[u].family = tokens'[v].family /\ tokens'[u].family # 0 =>
          tokens'[u].member = tokens'[v].member
  BY <1>1
<1>8. FamiliesFit'
  BY <1>5, <1>6, <1>7 DEF FamiliesFit
<1>9. ASSUME NEW n \in Members, session'[n] # NoSession
      PROVE  /\ session'[n].token \in Made' /\ session'[n].family \notin dead'
             /\ tokens'[session'[n].token].member = n
             /\ tokens'[session'[n].token].family = session'[n].family
             /\ tokens'[session'[n].token].rotated = 0
             /\ \A u \in Made' :
                  used'[u] # 0 /\ used'[u] = session'[n].family /\ u # session'[n].token =>
                    tokens'[u].shown >= 1
  <2>1. CASE n = m
    <3>1. \A u \in Made' : used'[u] = t => u = t
      BY <1>0, <1>5
    <3> QED
      BY <2>1, <1>3, <3>1
  <2>2. CASE n # m
    <3>1. session'[n] = session[n] /\ session[n] # NoSession
      BY <2>2, <1>3, <1>9
    <3>2. \A u \in Made' : used'[u] # 0 /\ used'[u] = session[n].family => used'[u] = used[u]
      BY <2>2, <3>1, <1>0, <1>1, <1>2, <1>4
    <3> QED
      BY <3>1, <3>2, <1>0, <1>1, <1>2
  <2> QED
    BY <2>1, <2>2
<1> QED
  BY <1>8, <1>9 DEF SessionsFit

(* The tokens after one more has been made. *)
LEMMA Appended ==
  ASSUME TokenTyped, NEW r \in TokenRecords, NEW more, more = Append(tokens, r)
  PROVE  /\ more \in Seq(TokenRecords) /\ Len(more) = Len(tokens) + 1
         /\ more[Len(tokens) + 1] = r
         /\ \A u \in Made : more[u] = tokens[u]
<1>1. tokens \in Seq(TokenRecords)
  BY DEF TokenTyped, TokenRecords
<1> QED
  BY <1>1 DEF Made

LEMMA TokenIs ==
  ASSUME NEW m \in Members, NEW f \in Nat
  PROVE  /\ Token(m, f) \in TokenRecords /\ Token(m, f).member = m /\ Token(m, f).family = f
         /\ Token(m, f).shown = 0 /\ Token(m, f).rotated = 0
BY DEF Token, TokenRecords

LEMMA IssueSession ==
  ASSUME CallTyped, SessionInv, NEW c \in Calls, call[c] \in LoginCalls, Issue(c)
  PROVE  SessionInv'
<1> DEFINE m == call[c].member
           t == Len(tokens) + 1
           next == [step |-> "issued", member |-> m, token |-> t]
<1>1. m \in Members
  BY DEF LoginCalls
<1>2. TokenTyped /\ FamiliesFit /\ AnswersPending
  BY DEF SessionInv
<1>3. /\ Len(tokens) \in Nat /\ Made = 1 .. Len(tokens) /\ t \in Nat /\ t <= MaxTokens
      /\ t \in 0 .. MaxTokens /\ t \notin Made /\ MaxTokens \in Nat
  BY <1>2, TokensAre DEF Issue
<1>4. tokens' = Append(tokens, Token(m, t)) /\ Issued(m, t, t) /\ UNCHANGED <<given, dead>>
  BY DEF Issue
<1>5. /\ call'[c] = next /\ call'[c].step = "issued" /\ call'[c].token = t
      /\ call'[c].member = m /\ \A d \in Calls : d # c => call'[d] = call[d]
  BY GotoEffect DEF Issue
<1> HIDE DEF m, t, next
<1>6. Token(m, t) \in TokenRecords
  BY <1>1, <1>3, TokenIs
<1>7. /\ tokens' \in Seq(TokenRecords) /\ Len(tokens') = Len(tokens) + 1
      /\ tokens'[t] = Token(m, t) /\ \A u \in Made : tokens'[u] = tokens[u]
  BY <1>2, <1>4, <1>6, Appended DEF t
<1>8. Made' = Made \cup {t} /\ Made \subseteq Made' /\ t \in Made'
  BY <1>3, <1>7 DEF Made, t
<1>9. /\ tokens'[t].member = m /\ tokens'[t].family = t /\ tokens'[t].rotated = 0
  BY <1>7, <1>1, <1>3, TokenIs
<1>10. \A u \in Made' : tokens'[u].family = t <=> u = t
  BY <1>2, <1>3, <1>7, <1>8, <1>9 DEF FamiliesFit, t
<1>11. TokenTyped'
  <2>1. session' \in [Members -> [family : Nat, token : Nat] \cup {NoSession}]
    BY <1>2, <1>3, <1>4 DEF Issued, TokenTyped
  <2>2. used' \in [0 .. MaxTokens -> Nat]
    BY <1>1, <1>4, MarkedEffect DEF Issued
  <2>3. Len(tokens') <= MaxTokens
    BY <1>3, <1>7 DEF t
  <2> QED
    BY <2>1, <2>2, <2>3, <1>2, <1>4, <1>7, <1>8 DEF TokenTyped, TokenRecords
<1>12. t \notin dead /\ t \notin given
  BY <1>2, <1>3 DEF TokenTyped
<1>13. \A u \in Made' : u \in Made \/ u = t
  BY <1>8
<1>14. UNCHANGED dead
  BY <1>4
<1>15. FamiliesFit' /\ SessionsFit'
  BY <1>1, <1>4, <1>7, <1>8, <1>9, <1>10, <1>11, <1>12, <1>13, <1>14, IssuedFit
<1>16. ASSUME NEW d \in Calls, At(d, "issued")'
       PROVE  /\ call'[d].token \in Made' \ given' /\ call'[d].token \notin dead'
              /\ tokens'[call'[d].token].member = call'[d].member
              /\ tokens'[call'[d].token].rotated = 0
              /\ \A u \in Made' : tokens'[u].family = call'[d].token <=> u = call'[d].token
              /\ d # c => call'[d].token \in Made
  <2>1. CASE d = c
    BY <2>1, <1>4, <1>5, <1>8, <1>9, <1>10, <1>12
  <2>2. CASE d # c
    <3>1. call'[d] = call[d] /\ At(d, "issued")
      BY <2>2, <1>5, <1>16 DEF At
    <3>2. /\ call[d].token \in Made \ given /\ call[d].token \notin dead
          /\ tokens[call[d].token].member = call[d].member
          /\ tokens[call[d].token].rotated = 0
          /\ \A u \in Made : tokens[u].family = call[d].token <=> u = call[d].token
      BY <3>1, <1>2 DEF AnswersPending
    <3>3. /\ call'[d].token \in Made' \ given' /\ call'[d].token \notin dead'
          /\ call'[d].token \in Made /\ call'[d].token # t
      BY <3>1, <3>2, <1>3, <1>4, <1>8
    <3>4. /\ tokens'[call'[d].token].member = call'[d].member
          /\ tokens'[call'[d].token].rotated = 0
      BY <3>1, <3>2, <1>7
    <3>5. \A u \in Made' : tokens'[u].family = call'[d].token <=> u = call'[d].token
      BY <3>1, <3>2, <3>3, <1>7, <1>8, <1>9
    <3> QED
      BY <3>3, <3>4, <3>5
  <2> QED
    BY <2>1, <2>2
<1>17. \A d, e \in Calls : At(d, "issued")' /\ At(e, "issued")' /\ d # e =>
         call'[d].token # call'[e].token
  <2>1. \A d \in Calls : At(d, "issued")' /\ d # c => call'[d].token # t
    BY <1>3, <1>16
  <2>2. \A d, e \in Calls : At(d, "issued") /\ At(e, "issued") /\ d # e =>
          call[d].token # call[e].token
    BY <1>2 DEF AnswersPending
  <2> QED
    BY <2>1, <2>2, <1>5 DEF At
<1>18. ASSUME NEW d \in Calls, At(d, "shown")', call'[d].result = "rotated"
       PROVE  /\ call'[d].token \in Made' /\ call'[d].next \in Made'
              /\ tokens'[call'[d].token].rotated = 1
              /\ \A e \in Calls : At(e, "issued")' => call'[e].token # call'[d].next
  <2>1. d # c /\ call'[d] = call[d] /\ At(d, "shown")
    BY <1>5, <1>18 DEF At
  <2>2. /\ call[d].token \in Made /\ call[d].next \in Made
        /\ tokens[call[d].token].rotated = 1
        /\ \A e \in Calls : At(e, "issued") => call[e].token # call[d].next
    BY <2>1, <1>2, <1>18 DEF AnswersPending
  <2> QED
    BY <2>1, <2>2, <1>3, <1>5, <1>7, <1>8 DEF At
<1> QED
  BY <1>11, <1>15, <1>16, <1>17, <1>18 DEF SessionInv, AnswersPending

(* The script of a login a second time. *)
LEMMA IssueAgain ==
  ASSUME CallTyped, SessionInv, NEW c \in Calls, At(c, "issued"),
         Issued(call[c].member, call[c].token, call[c].token),
         UNCHANGED <<tokens, given, call, dead>>
  PROVE  SessionInv'
<1> DEFINE m == call[c].member
           t == call[c].token
<1>1. m \in Members
  BY KindOfCall DEF At, IssuedCalls
<1>2. TokenTyped /\ AnswersPending
  BY DEF SessionInv
<1>3. /\ t \in Made \ given /\ t \notin dead /\ tokens[t].member = m
      /\ tokens[t].rotated = 0 /\ \A u \in Made : tokens[u].family = t <=> u = t
  BY <1>2 DEF AnswersPending
<1>4. Made' = Made /\ t \in Nat /\ Issued(m, t, t)
  BY <1>2, <1>3, TokensAre DEF Made
<1> HIDE DEF m, t
<1>5. TokenTyped'
  <2>1. session' \in [Members -> [family : Nat, token : Nat] \cup {NoSession}]
    <3>1. session' = [session EXCEPT ![m] = [family |-> t, token |-> t]]
      BY <1>4 DEF Issued
    <3>2. [family |-> t, token |-> t] \in [family : Nat, token : Nat]
      BY <1>4
    <3> QED
      BY <3>1, <3>2, <1>2 DEF TokenTyped
  <2>2. used' \in [0 .. MaxTokens -> Nat]
    BY <1>1, <1>4, MarkedEffect DEF Issued
  <2> QED
    BY <2>1, <2>2, <1>2, <1>4 DEF TokenTyped
<1>6. FamiliesFit' /\ SessionsFit'
  BY <1>1, <1>3, <1>4, <1>5, IssuedFit
<1>7. AnswersPending'
  BY <1>2, <1>4 DEF AnswersPending, At
<1> QED
  BY <1>5, <1>6, <1>7 DEF SessionInv

(* A token that is not exchanged: it may end a session, and that is all.   *)
LEMMA ShowOther ==
  ASSUME SessionInv, NEW m \in Members, NEW t \in Made \cup {None}, NEW next,
         Show(m, t, next), ScriptResult(m, t) # "rotated", UNCHANGED given
  PROVE  /\ TokenTyped' /\ FamiliesFit' /\ SessionsFit'
         /\ Made' = Made
         /\ \A u \in Made : /\ tokens'[u].member = tokens[u].member
                            /\ tokens'[u].family = tokens[u].family
                            /\ tokens'[u].rotated = tokens[u].rotated
                            /\ tokens'[u].shown >= tokens[u].shown
         /\ \A x \in dead' \ dead : t \in Made /\ tokens[t].family = x
         /\ t \in Made /\ tokens[t].shown >= 1 => tokens'[t].shown = 2
<1> USE DEF NoFamily, Legacy, None
<1>0. TokenTyped /\ FamiliesFit /\ SessionsFit
  BY DEF SessionInv
<1>1. /\ Len(tokens) \in Nat /\ Made = 1 .. Len(tokens) /\ Made \subseteq 0 .. MaxTokens
      /\ \A u \in Made : tokens[u] \in TokenRecords
  BY <1>0, TokensAre
<1>2. \A u \in Made : /\ tokens[u].shown \in 0 .. 2 /\ tokens[u].rotated \in Nat
                      /\ tokens[u].family \in Nat /\ tokens[u].member \in Members
  BY <1>1 DEF TokenRecords
<1> DEFINE r == Shown(tokens[t], ScriptResult(m, t), FamilyFor(m, t, next))
<1>3. t \in Made =>
        /\ r \in TokenRecords /\ r.member = tokens[t].member /\ r.family = tokens[t].family
        /\ r.rotated = tokens[t].rotated /\ r.shown >= tokens[t].shown
        /\ tokens[t].shown >= 1 => r.shown = 2
  <2> SUFFICES ASSUME t \in Made
               PROVE  /\ r \in TokenRecords /\ r.member = tokens[t].member
                      /\ r.family = tokens[t].family /\ r.rotated = tokens[t].rotated
                      /\ r.shown >= tokens[t].shown
                      /\ tokens[t].shown >= 1 => r.shown = 2
    OBVIOUS
  <2>1. r = [member |-> tokens[t].member, family |-> tokens[t].family,
             shown |-> IF tokens[t].shown < 2 THEN tokens[t].shown + 1 ELSE 2,
             rotated |-> tokens[t].rotated]
    BY DEF Shown
  <2> QED
    BY <2>1, <1>2 DEF TokenRecords
<1>4. tokens' = IF t = 0 THEN tokens ELSE [tokens EXCEPT ![t] = r]
  BY DEF Show
<1> HIDE DEF r
<1>5. tokens \in Seq(TokenRecords)
  BY <1>0 DEF TokenTyped, TokenRecords
<1>6. tokens' \in Seq(TokenRecords) /\ Len(tokens') = Len(tokens)
  <2>1. CASE t = 0
    BY <2>1, <1>4, <1>5
  <2>2. CASE t # 0
    BY <2>2, <1>1, <1>3, <1>4, <1>5
  <2> QED
    BY <2>1, <2>2
<1>7. Made' = Made
  BY <1>6 DEF Made
<1>8. \A u \in Made : /\ tokens'[u].member = tokens[u].member
                      /\ tokens'[u].family = tokens[u].family
                      /\ tokens'[u].rotated = tokens[u].rotated
                      /\ tokens'[u].shown >= tokens[u].shown
  BY <1>1, <1>2, <1>3, <1>4, <1>5
<1>9. /\ UNCHANGED used
      /\ session' = session \/ (Revoked(m, t) /\ session' = [session EXCEPT ![m] = NoSession])
      /\ \A x \in dead' \ dead : x = used[t] /\ used[t] # 0 /\ tokens[t].member = m
      /\ (used[t] # 0 => (Revoked(m, t) => session'[m] = NoSession))
  BY <1>0 DEF Show, Rotated, ScriptResult, TokenTyped
<1>10. \A u \in 0 .. MaxTokens : used[u] # 0 => u \in Made /\ tokens[u].family = used[u]
  BY <1>0 DEF FamiliesFit
<1>11. t \in 0 .. MaxTokens
  BY <1>1, AccountAssumption
<1>12. \A x \in dead' \ dead : t \in Made /\ tokens[t].family = x /\ x \in Made /\ x # 0
  <2>1. \A x \in dead' \ dead : t \in Made /\ tokens[t].family = x /\ x # 0
    BY <1>9, <1>10, <1>11
  <2>2. \A u \in Made : tokens[u].family <= Len(tokens)
    BY <1>0 DEF FamiliesFit
  <2> QED
    BY <2>1, <2>2, <1>1, <1>2
<1>13. TokenTyped'
  <2>1. session' \in [Members -> [family : Nat, token : Nat] \cup {NoSession}]
    BY <1>0, <1>9 DEF TokenTyped
  <2> QED
    BY <2>1, <1>0, <1>6, <1>7, <1>9, <1>12 DEF TokenTyped, TokenRecords
<1>14. FamiliesFit'
  BY <1>0, <1>6, <1>7, <1>8, <1>9 DEF FamiliesFit
<1>15. SessionsFit'
  <2> SUFFICES ASSUME NEW n \in Members, session'[n] # NoSession
               PROVE  /\ session'[n] = session[n]
                      /\ session[n].family \notin dead'
    <3>1. ASSUME NEW n \in Members, session'[n] = session[n], session[n] # NoSession,
                 session[n].family \notin dead'
          PROVE  /\ session'[n].token \in Made' /\ session'[n].family \notin dead'
                 /\ tokens'[session'[n].token].member = n
                 /\ tokens'[session'[n].token].family = session'[n].family
                 /\ tokens'[session'[n].token].rotated = 0
                 /\ \A u \in Made' :
                      used'[u] # 0 /\ used'[u] = session'[n].family /\ u # session'[n].token =>
                        tokens'[u].shown >= 1
      <4>1. /\ session[n].token \in Made
            /\ tokens[session[n].token].member = n
            /\ tokens[session[n].token].family = session[n].family
            /\ tokens[session[n].token].rotated = 0
        BY <3>1, <1>0 DEF SessionsFit
      <4>2. \A u \in Made :
              used[u] # 0 /\ used[u] = session[n].family /\ u # session[n].token =>
                tokens[u].shown >= 1
        BY <3>1, <1>0 DEF SessionsFit
      <4>3. \A u \in Made : tokens'[u].shown \in Nat
        <5>1. \A u \in Made : tokens'[u] \in TokenRecords
          BY <1>1, <1>6
        <5> QED
          BY <5>1 DEF TokenRecords
      <4> QED
        BY <3>1, <4>1, <4>2, <4>3, <1>2, <1>7, <1>8, <1>9
    <3> QED
      BY <3>1 DEF SessionsFit
  <2>1. session'[n] = session[n] /\ session[n] # NoSession
    BY <1>0, <1>9 DEF TokenTyped
  <2>2. ASSUME session[n].family \in dead' \ dead
        PROVE  FALSE
    <3>1. /\ t \in Made /\ tokens[t].member = m /\ tokens[t].family = session[n].family
          /\ session[n].family # 0 /\ used[t] = session[n].family
      BY <2>2, <1>9, <1>12
    <3>2. /\ session[n].token \in Made /\ tokens[session[n].token].member = n
          /\ tokens[session[n].token].family = session[n].family
      BY <2>1, <1>0 DEF SessionsFit
    <3>3. n = m
      BY <3>1, <3>2, <1>0 DEF FamiliesFit
    <3> QED
      BY <3>1, <3>3, <2>1, <1>9 DEF Revoked
  <2>3. session[n].family \notin dead
    BY <2>1, <1>0 DEF SessionsFit
  <2> QED
    BY <2>1, <2>2, <2>3
<1>16. t \in Made /\ tokens[t].shown >= 1 => tokens'[t].shown = 2
  BY <1>1, <1>3, <1>4, <1>5
<1> QED
  BY <1>7, <1>8, <1>12, <1>13, <1>14, <1>15, <1>16

(* A token that is exchanged: it was fresh, of the session's own family,   *)
(* and the next one continues the family.                                  *)
LEMMA ShowRotated ==
  ASSUME SessionInv, NEW m \in Members, NEW t \in Made \cup {None},
         Len(tokens) + 1 <= MaxTokens, Show(m, t, Len(tokens) + 1),
         ScriptResult(m, t) = "rotated", UNCHANGED given
  PROVE  /\ TokenTyped' /\ FamiliesFit' /\ SessionsFit'
         /\ t \in Made /\ tokens[t].rotated = 0 /\ tokens[t].family \notin dead
         /\ Made' = Made \cup {Len(tokens) + 1} /\ UNCHANGED dead
         /\ \A u \in Made : u # t => tokens'[u] = tokens[u]
         /\ tokens'[t].rotated = 1 /\ tokens'[t].shown >= 1
         /\ \A u \in Made' : \A f \in Made :
              tokens'[u].family = f => \E v \in Made : tokens[v].family = f /\ v \in {u, t}
<1> USE DEF NoFamily, Legacy, None
<1> DEFINE next == Len(tokens) + 1
           f == FamilyFor(m, t, next)
           r == Shown(tokens[t], ScriptResult(m, t), f)
<1>0. TokenTyped /\ FamiliesFit /\ SessionsFit
  BY DEF SessionInv
<1>1. /\ Len(tokens) \in Nat /\ Made = 1 .. Len(tokens) /\ Made \subseteq 0 .. MaxTokens
      /\ \A u \in Made : tokens[u] \in TokenRecords
  BY <1>0, TokensAre
<1>2. \A u \in Made : /\ tokens[u].shown \in 0 .. 2 /\ tokens[u].rotated \in Nat
                      /\ tokens[u].family \in Nat /\ tokens[u].member \in Members
  BY <1>1 DEF TokenRecords
<1>3. session[m] # NoSession /\ session[m].token = t
  BY DEF ScriptResult, Current
<1>4. /\ t \in Made /\ tokens[t].member = m /\ tokens[t].family = session[m].family
      /\ tokens[t].rotated = 0 /\ tokens[t].family \notin dead
  BY <1>0, <1>3 DEF SessionsFit
<1>5. /\ next \in Nat /\ next \notin Made /\ next \in 0 .. MaxTokens /\ next # t
      /\ t # 0 /\ t \in 0 .. MaxTokens
  BY <1>1, <1>4
<1>6. /\ f \in Nat /\ f # 0 /\ f = (IF tokens[t].family = 0 THEN next ELSE tokens[t].family)
      /\ f <= next /\ f \notin dead
  <2>1. tokens[t].family <= Len(tokens) /\ tokens[t].family \in Nat
    BY <1>0, <1>2, <1>4 DEF FamiliesFit
  <2>2. f = (IF tokens[t].family = 0 THEN next ELSE tokens[t].family)
    BY <1>3, <1>4 DEF FamilyFor
  <2>3. next \notin dead
    BY <1>0, <1>5 DEF TokenTyped
  <2> HIDE DEF f
  <2> QED
    BY <2>1, <2>2, <2>3, <1>1, <1>4, <1>5
<1> DEFINE more == Append(tokens, Token(m, f))
<1>7. /\ tokens' = [more EXCEPT ![t] = r]
      /\ used' = [used EXCEPT ![t] = f]
      /\ session' = [session EXCEPT ![m] = [family |-> f, token |-> next]]
      /\ UNCHANGED dead
  BY <1>5 DEF Show, Rotated
<1>8. r \in TokenRecords /\ r.member = m /\ r.family = f /\ r.rotated = 1 /\ r.shown >= 1
  <2>1. r = [member |-> m, family |-> f,
             shown |-> IF tokens[t].shown < 2 THEN tokens[t].shown + 1 ELSE 2,
             rotated |-> 1]
    BY <1>2, <1>4, <1>6 DEF Shown
  <2> HIDE DEF f, r
  <2> QED
    BY <2>1, <1>2, <1>4, <1>6 DEF TokenRecords
<1>9. /\ Token(m, f) \in TokenRecords /\ Token(m, f).member = m /\ Token(m, f).family = f
      /\ Token(m, f).shown = 0 /\ Token(m, f).rotated = 0
  BY <1>6, TokenIs
<1> HIDE DEF f, r
<1>10. /\ more \in Seq(TokenRecords) /\ Len(more) = next /\ more[next] = Token(m, f)
       /\ \A u \in Made : more[u] = tokens[u]
  <2> DEFINE h == Token(m, f)
  <2>1. h \in TokenRecords /\ more = Append(tokens, h)
    BY <1>9
  <2> HIDE DEF h, more
  <2>2. /\ more \in Seq(TokenRecords) /\ Len(more) = Len(tokens) + 1
        /\ more[Len(tokens) + 1] = h /\ \A u \in Made : more[u] = tokens[u]
    BY <2>1, <1>0, Appended
  <2> QED
    BY <2>2 DEF h
<1> HIDE DEF more
<1>11. /\ tokens' \in Seq(TokenRecords) /\ Len(tokens') = next /\ tokens'[t] = r
       /\ \A u \in Made : u # t => tokens'[u] = tokens[u]
       /\ tokens'[next] = Token(m, f)
  <2>1. t \in 1 .. Len(more) /\ next \in 1 .. Len(more) /\ next = Len(tokens) + 1
    BY <1>1, <1>4, <1>5, <1>10
  <2>2. \A u \in Made : u \in 1 .. Len(more) /\ u # next
    BY <1>1, <1>5, <1>10
  <2> HIDE DEF next
  <2>3. /\ tokens' \in Seq(TokenRecords) /\ Len(tokens') = Len(more)
        /\ \A u \in 1 .. Len(more) : tokens'[u] = IF u = t THEN r ELSE more[u]
    BY <2>1, <1>7, <1>8, <1>10
  <2> QED
    BY <2>1, <2>2, <2>3, <1>5, <1>10
<1>12. Made' = Made \cup {next} /\ next \in Made'
  BY <1>1, <1>5, <1>11 DEF Made
<1> HIDE DEF next
<1>13. TokenTyped'
  <2>1. session' \in [Members -> [family : Nat, token : Nat] \cup {NoSession}]
    BY <1>0, <1>5, <1>6, <1>7 DEF TokenTyped
  <2>2. used' \in [0 .. MaxTokens -> Nat]
    BY <1>0, <1>5, <1>6, <1>7 DEF TokenTyped
  <2>3. Len(tokens') <= MaxTokens
    BY <1>5, <1>11
  <2> QED
    BY <2>1, <2>2, <2>3, <1>0, <1>7, <1>11, <1>12 DEF TokenTyped, TokenRecords
<1>14. \A u \in Made' : \/ u \in {t, next} /\ tokens'[u].family = f /\ tokens'[u].member = m
                        \/ u \in Made /\ u # t /\ u # next /\ tokens'[u] = tokens[u]
  BY <1>5, <1>8, <1>9, <1>11, <1>12
<1>15. \A u \in Made : tokens[u].family = f => tokens[u].member = m
  <2>1. \A u \in Made : tokens[u].family <= Len(tokens)
    BY <1>0 DEF FamiliesFit
  <2>2. f = next => \A u \in Made : tokens[u].family # f
    BY <2>1, <1>1, <1>2 DEF next
  <2> QED
    BY <2>2, <1>0, <1>4, <1>6 DEF FamiliesFit
<1>16. FamiliesFit'
  <2>1. \A u \in Made' : tokens'[u].family <= Len(tokens') /\ tokens'[u].rotated <= 1
    <3> TAKE u \in Made'
    <3>1. CASE u \in {t, next}
      BY <3>1, <1>6, <1>8, <1>9, <1>11
    <3>2. CASE u \notin {t, next}
      <4>1. u \in Made /\ tokens'[u] = tokens[u] /\ tokens[u].family \in Nat
        BY <3>2, <1>2, <1>14
      <4>2. tokens[u].family <= Len(tokens) /\ tokens[u].rotated <= 1
        BY <4>1, <1>0 DEF FamiliesFit
      <4> QED
        BY <4>1, <4>2, <1>1, <1>11 DEF next
    <3> QED
      BY <3>1, <3>2
  <2>2. \A u \in 0 .. MaxTokens : used'[u] # 0 => u \in Made' /\ tokens'[u].family = used'[u]
    <3> TAKE u \in 0 .. MaxTokens
    <3>1. CASE u = t
      BY <3>1, <1>0, <1>4, <1>5, <1>7, <1>12, <1>14 DEF TokenTyped
    <3>2. CASE u # t
      <4>1. used'[u] = used[u] /\ (used[u] # 0 => u \in Made /\ tokens[u].family = used[u])
        BY <3>2, <1>0, <1>7 DEF FamiliesFit, TokenTyped
      <4> QED
        BY <3>2, <4>1, <1>5, <1>11, <1>12
    <3> QED
      BY <3>1, <3>2
  <2>3. \A u, v \in Made' :
          tokens'[u].family = tokens'[v].family /\ tokens'[u].family # 0 =>
            tokens'[u].member = tokens'[v].member
    BY <1>0, <1>14, <1>15 DEF FamiliesFit
  <2> QED
    BY <2>1, <2>2, <2>3 DEF FamiliesFit
<1>17. SessionsFit'
  <2> SUFFICES ASSUME NEW n \in Members, session'[n] # NoSession
               PROVE  /\ session'[n].token \in Made' /\ session'[n].family \notin dead'
                      /\ tokens'[session'[n].token].member = n
                      /\ tokens'[session'[n].token].family = session'[n].family
                      /\ tokens'[session'[n].token].rotated = 0
                      /\ \A u \in Made' :
                           /\ used'[u] # 0 /\ used'[u] = session'[n].family
                           /\ u # session'[n].token
                           => tokens'[u].shown >= 1
    BY DEF SessionsFit
  <2>1. \A u \in 0 .. MaxTokens : used'[u] = IF u = t THEN f ELSE used[u]
    BY <1>0, <1>5, <1>7 DEF TokenTyped
  <2>2. \A k \in Members, u \in Made :
          /\ session[k] # NoSession /\ used[u] # 0
          /\ used[u] = session[k].family /\ u # session[k].token
          => tokens[u].shown >= 1
    BY <1>0 DEF SessionsFit
  <2>3. Made \subseteq 0 .. MaxTokens /\ next \in 0 .. MaxTokens
    BY <1>1, <1>5
  <2>4. CASE n = m
    <3>1. session'[n] = [family |-> f, token |-> next]
      BY <2>4, <1>0, <1>7 DEF TokenTyped
    <3>2. session'[n].token = next /\ session'[n].family = f
      BY <3>1
    <3>3. ASSUME NEW u \in Made', used'[u] # 0, used'[u] = f, u # next
          PROVE  tokens'[u].shown >= 1
      <4>1. CASE u = t
        BY <4>1, <1>8, <1>11
      <4>2. CASE u # t
        <5>1. /\ u \in Made /\ used[u] = f /\ used[u] # 0 /\ tokens'[u] = tokens[u]
              /\ tokens[u].family = f
          BY <4>2, <3>3, <2>1, <2>3, <1>0, <1>11, <1>12 DEF FamiliesFit
        <5>2. f = session[m].family
          <6>1. tokens[u].family <= Len(tokens)
            BY <5>1, <1>0 DEF FamiliesFit
          <6> QED
            BY <6>1, <5>1, <1>1, <1>4, <1>6 DEF next
        <5> QED
          BY <4>2, <5>1, <5>2, <2>2, <1>3
      <4> QED
        BY <4>1, <4>2
    <3> QED
      BY <3>2, <3>3, <2>4, <1>6, <1>7, <1>9, <1>11, <1>12
  <2>5. CASE n # m
    <3>1. session'[n] = session[n] /\ session[n] # NoSession
      BY <2>5, <1>0, <1>7 DEF TokenTyped
    <3>2. /\ session[n].token \in Made /\ session[n].family \notin dead
          /\ tokens[session[n].token].member = n
          /\ tokens[session[n].token].family = session[n].family
          /\ tokens[session[n].token].rotated = 0
      BY <3>1, <1>0 DEF SessionsFit
    <3>3. session[n].token # t
      BY <3>2, <2>5, <1>4
    <3>4. ASSUME NEW u \in Made', used'[u] # 0, used'[u] = session[n].family,
                 u # session[n].token
          PROVE  tokens'[u].shown >= 1
      <4>1. CASE u = t
        BY <4>1, <1>8, <1>11
      <4>2. CASE u # t
        <5>1. u \in Made /\ used[u] = used'[u] /\ tokens'[u] = tokens[u]
          BY <4>2, <3>4, <2>1, <2>3, <1>0, <1>11, <1>12 DEF FamiliesFit
        <5> QED
          BY <3>1, <3>4, <5>1, <2>2
      <4> QED
        BY <4>1, <4>2
    <3> QED
      BY <3>1, <3>2, <3>3, <3>4, <1>7, <1>11, <1>12
  <2> QED
    BY <2>4, <2>5
<1>18. tokens'[t].rotated = 1 /\ tokens'[t].shown >= 1
  BY <1>8, <1>11
<1>19. ASSUME NEW u \in Made', NEW g \in Made, tokens'[u].family = g
       PROVE  \E v \in Made : tokens[v].family = g /\ v \in {u, t}
  <2>1. CASE u \in {t, next}
    <3>1. g = f /\ f # next
      BY <2>1, <1>5, <1>14, <1>19
    <3> QED
      BY <3>1, <1>4, <1>6
  <2>2. CASE u \notin {t, next}
    BY <2>2, <1>14, <1>19
  <2> QED
    BY <2>1, <2>2
<1> QED
  BY <1>4, <1>7, <1>11, <1>12, <1>13, <1>16, <1>17, <1>18, <1>19 DEF next

LEMMA ResultIs ==
  ASSUME NEW m, NEW t
  PROVE  ScriptResult(m, t) \in {"rotated", "replayed", "invalid"}
BY DEF ScriptResult

LEMMA RefreshSession ==
  ASSUME CallTyped, SessionInv, NEW c \in Calls, NEW m \in Members,
         NEW t \in given \cup {None}, Refresh(c, m, t)
  PROVE  CallTyped' /\ SessionInv' /\ call'[c] \in ShownCalls
<1> DEFINE next == Len(tokens) + 1
           result == ScriptResult(m, t)
           r == [step |-> "shown", member |-> m, token |-> t, next |-> next, result |-> result]
<1>0. TokenTyped /\ FamiliesFit /\ AnswersPending
  BY DEF SessionInv
<1>1. /\ Len(tokens) \in Nat /\ Made = 1 .. Len(tokens) /\ given \subseteq Made
      /\ next \in Nat /\ next \notin Made /\ t \in Made \cup {None} /\ t \in Nat
  BY <1>0, TokensAre DEF TokenTyped, None
<1>2. /\ Goto(c, r) /\ Show(m, t, next) /\ UNCHANGED given
      /\ next <= MaxTokens \/ result # "rotated"
  BY DEF Refresh
<1>3. result \in {"rotated", "replayed", "invalid"}
  BY ResultIs
<1>4. r \in ShownCalls /\ r.step = "shown" /\ r.token = t /\ r.next = next /\ r.result = result
  BY <1>1, <1>3 DEF ShownCalls
<1> HIDE DEF r
<1>5. /\ call'[c] = r /\ \A d \in Calls : d # c => call'[d] = call[d]
      /\ CallTyped'
  BY <1>2, <1>4, GotoEffect, GotoTyped DEF Records
<1>6. \A d \in Calls : At(d, "issued")' => d # c /\ call'[d] = call[d] /\ At(d, "issued")
  BY <1>4, <1>5 DEF At
<1>7. \A d, e \in Calls : At(d, "issued")' /\ At(e, "issued")' /\ d # e =>
        call'[d].token # call'[e].token
  BY <1>0, <1>6 DEF AnswersPending
<1>8. \A d \in Calls : At(d, "shown")' /\ d # c => call'[d] = call[d] /\ At(d, "shown")
  BY <1>5 DEF At
<1>i. ASSUME NEW d \in Calls, At(d, "issued")'
      PROVE  /\ call'[d].token \in Made \ given /\ call'[d].token \notin dead
             /\ tokens[call'[d].token].member = call'[d].member
             /\ tokens[call'[d].token].rotated = 0 /\ call'[d].token # t
             /\ \A u \in Made : tokens[u].family = call'[d].token <=> u = call'[d].token
  <2>1. /\ call'[d].token \in Made \ given /\ call'[d].token \notin dead
        /\ tokens[call'[d].token].member = call'[d].member
        /\ tokens[call'[d].token].rotated = 0
        /\ \A u \in Made : tokens[u].family = call'[d].token <=> u = call'[d].token
    BY <1>0, <1>i, <1>6 DEF AnswersPending
  <2>2. call'[d].token # t
    BY <2>1, <1>1 DEF None
  <2> QED
    BY <2>1, <2>2
<1>s. ASSUME NEW d \in Calls, At(d, "shown")', call'[d].result = "rotated", d # c
      PROVE  /\ call'[d].token \in Made /\ call'[d].next \in Made
             /\ tokens[call'[d].token].rotated = 1
             /\ \A e \in Calls : At(e, "issued")' => call'[e].token # call'[d].next
  BY <1>0, <1>s, <1>6, <1>8 DEF AnswersPending
<1>9. CASE result = "rotated"
  <2>1. /\ TokenTyped' /\ FamiliesFit' /\ SessionsFit'
        /\ t \in Made /\ tokens[t].rotated = 0
        /\ Made' = Made \cup {next} /\ UNCHANGED dead
        /\ \A u \in Made : u # t => tokens'[u] = tokens[u]
        /\ tokens'[t].rotated = 1
        /\ \A u \in Made' : \A f \in Made :
             tokens'[u].family = f => \E v \in Made : tokens[v].family = f /\ v \in {u, t}
    BY <1>1, <1>2, <1>9, ShowRotated
  <2>2. ASSUME NEW d \in Calls, At(d, "issued")'
        PROVE  /\ call'[d].token \in Made' \ given' /\ call'[d].token \notin dead'
               /\ tokens'[call'[d].token].member = call'[d].member
               /\ tokens'[call'[d].token].rotated = 0
               /\ \A u \in Made' : tokens'[u].family = call'[d].token <=> u = call'[d].token
    <3> DEFINE x == call'[d].token
    <3>1. /\ x \in Made \ given /\ x \notin dead /\ tokens[x].member = call'[d].member
          /\ tokens[x].rotated = 0 /\ x # t
          /\ \A u \in Made : tokens[u].family = x <=> u = x
      BY <2>2, <1>i
    <3> HIDE DEF x
    <3>2. tokens'[x] = tokens[x]
      BY <3>1, <2>1
    <3>3. \A u \in Made' : tokens'[u].family = x <=> u = x
      BY <3>1, <3>2, <2>1
    <3> QED
      BY <3>1, <3>2, <3>3, <2>1, <1>2 DEF x
  <2>3. ASSUME NEW d \in Calls, At(d, "shown")', call'[d].result = "rotated"
        PROVE  /\ call'[d].token \in Made' /\ call'[d].next \in Made'
               /\ tokens'[call'[d].token].rotated = 1
               /\ \A e \in Calls : At(e, "issued")' => call'[e].token # call'[d].next
    <3>1. CASE d = c
      BY <3>1, <2>1, <1>1, <1>4, <1>5, <1>i
    <3>2. CASE d # c
      BY <3>2, <2>1, <2>3, <1>s
    <3> QED
      BY <3>1, <3>2
  <2> QED
    BY <2>1, <2>2, <2>3, <1>4, <1>5, <1>7 DEF SessionInv, AnswersPending
<1>10. CASE result # "rotated"
  <2>1. /\ TokenTyped' /\ FamiliesFit' /\ SessionsFit' /\ Made' = Made
        /\ \A u \in Made : /\ tokens'[u].member = tokens[u].member
                           /\ tokens'[u].family = tokens[u].family
                           /\ tokens'[u].rotated = tokens[u].rotated
        /\ \A x \in dead' \ dead : t \in Made /\ tokens[t].family = x
    BY <1>1, <1>2, <1>10, ShowOther
  <2>2. ASSUME NEW d \in Calls, At(d, "issued")'
        PROVE  /\ call'[d].token \in Made' \ given' /\ call'[d].token \notin dead'
               /\ tokens'[call'[d].token].member = call'[d].member
               /\ tokens'[call'[d].token].rotated = 0
               /\ \A u \in Made' : tokens'[u].family = call'[d].token <=> u = call'[d].token
    <3> DEFINE x == call'[d].token
    <3>1. /\ x \in Made \ given /\ x \notin dead /\ tokens[x].member = call'[d].member
          /\ tokens[x].rotated = 0 /\ x # t
          /\ \A u \in Made : tokens[u].family = x <=> u = x
      BY <2>2, <1>i
    <3> HIDE DEF x
    <3> QED
      BY <3>1, <2>1, <1>2 DEF x
  <2>3. ASSUME NEW d \in Calls, At(d, "shown")', call'[d].result = "rotated"
        PROVE  /\ call'[d].token \in Made' /\ call'[d].next \in Made'
               /\ tokens'[call'[d].token].rotated = 1
               /\ \A e \in Calls : At(e, "issued")' => call'[e].token # call'[d].next
    <3>1. d # c
      BY <2>3, <1>4, <1>5, <1>10
    <3> QED
      BY <3>1, <2>1, <2>3, <1>s
  <2> QED
    BY <2>1, <2>2, <2>3, <1>4, <1>5, <1>7 DEF SessionInv, AnswersPending
<1> QED
  BY <1>9, <1>10

(* The script of a refresh a second time finds the token exchanged. *)
LEMMA NeverTwice ==
  ASSUME SessionInv, NEW c \in Calls, At(c, "shown"), call[c].result = "rotated",
         call[c].member \in Members
  PROVE  ScriptResult(call[c].member, call[c].token) # "rotated"
<1>1. call[c].token \in Made /\ tokens[call[c].token].rotated = 1
  BY DEF SessionInv, AnswersPending
<1>2. ~Current(call[c].member, call[c].token)
  BY <1>1 DEF SessionInv, SessionsFit, Current
<1> QED
  BY <1>2 DEF ScriptResult

LEMMA ShowAgain ==
  ASSUME CallTyped, SessionInv, NEW c \in Calls, At(c, "shown"), call[c].result = "rotated",
         Show(call[c].member, call[c].token, call[c].next), UNCHANGED given,
         Goto(c, [call[c] EXCEPT !.result = ScriptResult(call[c].member, call[c].token)])
  PROVE  CallTyped' /\ SessionInv' /\ call'[c] \in ShownCalls
<1> DEFINE m == call[c].member
           t == call[c].token
           result == ScriptResult(m, t)
           r == [call[c] EXCEPT !.result = result]
<1>0. TokenTyped /\ AnswersPending
  BY DEF SessionInv
<1>1. call[c] \in ShownCalls /\ m \in Members
  BY KindOfCall DEF At, ShownCalls
<1>2. result \in {"rotated", "replayed", "invalid"} /\ result # "rotated"
  BY <1>1, ResultIs, NeverTwice
<1>3. r \in ShownCalls /\ r.step = "shown" /\ r.result = result
  <2> DEFINE q == call[c]
  <2>1. q \in ShownCalls /\ r = [q EXCEPT !.result = result]
    BY <1>1
  <2> HIDE DEF q, result, r
  <2> QED
    BY <2>1, <1>2 DEF ShownCalls
<1>4. Goto(c, r)
  OBVIOUS
<1> HIDE DEF r
<1>5. /\ call'[c] = r /\ \A d \in Calls : d # c => call'[d] = call[d]
      /\ CallTyped'
  BY <1>3, <1>4, GotoEffect, GotoTyped DEF Records
<1>6. t \in Made /\ tokens[t].rotated = 1
  BY <1>0 DEF AnswersPending
<1>7. /\ TokenTyped' /\ FamiliesFit' /\ SessionsFit' /\ Made' = Made
      /\ \A u \in Made : /\ tokens'[u].member = tokens[u].member
                         /\ tokens'[u].family = tokens[u].family
                         /\ tokens'[u].rotated = tokens[u].rotated
      /\ \A x \in dead' \ dead : t \in Made /\ tokens[t].family = x
  BY <1>1, <1>2, <1>6, ShowOther
<1> HIDE DEF m, t, result
<1>i. \A d \in Calls : At(d, "issued")' => d # c /\ call'[d] = call[d] /\ At(d, "issued")
  BY <1>3, <1>5 DEF At
<1>s. \A d \in Calls : At(d, "shown")' /\ call'[d].result = "rotated" =>
        d # c /\ call'[d] = call[d] /\ At(d, "shown")
  BY <1>2, <1>3, <1>5 DEF At
<1>9. ASSUME NEW d \in Calls, At(d, "issued")'
      PROVE  /\ call'[d].token \in Made' \ given' /\ call'[d].token \notin dead'
             /\ tokens'[call'[d].token].member = call'[d].member
             /\ tokens'[call'[d].token].rotated = 0
             /\ \A u \in Made' : tokens'[u].family = call'[d].token <=> u = call'[d].token
  <2> DEFINE x == call'[d].token
  <2>1. /\ x \in Made \ given /\ x \notin dead /\ tokens[x].member = call'[d].member
        /\ tokens[x].rotated = 0
        /\ \A u \in Made : tokens[u].family = x <=> u = x
    BY <1>0, <1>i, <1>9 DEF AnswersPending
  <2>2. x # t
    BY <2>1, <1>6
  <2> HIDE DEF x
  <2> QED
    BY <2>1, <2>2, <1>7 DEF x
<1>10. \A d, e \in Calls : At(d, "issued")' /\ At(e, "issued")' /\ d # e =>
         call'[d].token # call'[e].token
  BY <1>0, <1>i DEF AnswersPending
<1>11. ASSUME NEW d \in Calls, At(d, "shown")', call'[d].result = "rotated"
       PROVE  /\ call'[d].token \in Made' /\ call'[d].next \in Made'
              /\ tokens'[call'[d].token].rotated = 1
              /\ \A e \in Calls : At(e, "issued")' => call'[e].token # call'[d].next
  <2>1. /\ call'[d].token \in Made /\ call'[d].next \in Made
        /\ tokens[call'[d].token].rotated = 1
        /\ \A e \in Calls : At(e, "issued") => call[e].token # call'[d].next
    BY <1>0, <1>s, <1>11 DEF AnswersPending
  <2> QED
    BY <2>1, <1>7, <1>i, <1>s, <1>11
<1> QED
  BY <1>3, <1>5, <1>7, <1>9, <1>10, <1>11 DEF SessionInv, AnswersPending

-----------------------------------------------------------------------------
(* The invariant. *)

LEMMA AccountInit ==
  Init => AccountInv
<1> SUFFICES ASSUME Init PROVE AccountInv
  OBVIOUS
<1> USE DEF NoFamily, Legacy
<1>1. call = [c \in Calls |-> Idle] /\ \A c \in Calls : call[c].step = "idle"
  BY DEF Init, Idle
<1>2. CallTyped
  BY <1>1 DEF CallTyped
<1>3. MemberInv
  <2>1. PICK old \in SUBSET Known : member = [m \in Members |->
          [hash |-> IF m \in old THEN "legacy" ELSE NoHash, seen |-> FALSE]]
    BY DEF Init
  <2>2. \A m \in Members : member[m].seen = FALSE
    BY <2>1
  <2>3. member \in [Members -> [hash : Hashes \cup {NoHash}, seen : BOOLEAN]]
    BY <2>1 DEF Hashes
  <2>4. firsts = [m \in Members |-> 0]
    BY DEF Init
  <2>5. FirstLoginOnce
    BY <2>2, <2>4 DEF FirstLoginOnce
  <2>6. \A c \in Calls : call[c] \notin LoginCalls
    BY <1>1, NotLogin
  <2> QED
    BY <2>2, <2>3, <2>4, <2>5, <2>6 DEF MemberInv
<1>4. PlaceInv
  <2>1. active = [p \in Processes |-> 0]
    BY DEF Init
  <2>2. \A p : {c \in Calls : Home[c] = p /\ call[c].step \in Deriving} = {}
    BY <1>1 DEF Deriving
  <2> QED
    <3>1. \A p \in Processes : active[p] = 0 /\ 0 <= Capacity
      BY <2>1, AccountAssumption
    <3>2. \A p \in Processes :
            Cardinality({c \in Calls : Home[c] = p /\ call[c].step \in Deriving}) = 0
      BY <2>2, FS_EmptySet
    <3>3. active \in [Processes -> Nat]
      BY <2>1
    <3> QED
      BY <3>1, <3>2, <3>3 DEF PlaceInv, PlacesComeBack
<1>5. SessionInv
  <2>1. /\ used = [t \in 0 .. MaxTokens |-> 0] /\ dead = {}
        /\ \A t \in 0 .. MaxTokens : used[t] = 0
    BY DEF Init
  <2>2. AnswersPending
    BY <1>1 DEF AnswersPending, At
  <2>3. CASE session = [m \in Members |-> NoSession] /\ tokens = <<>> /\ given = {}
    <3>1. Made = {} /\ Len(tokens) = 0
      BY <2>3 DEF Made
    <3>2. TokenTyped
      BY <2>1, <2>3, <3>1, AccountAssumption DEF TokenTyped
    <3>3. FamiliesFit /\ SessionsFit
      BY <2>1, <2>3, <3>1 DEF FamiliesFit, SessionsFit
    <3> QED
      BY <2>2, <3>2, <3>3 DEF SessionInv
  <2>4. ASSUME NEW m \in Members,
               session = [n \in Members |->
                    IF n = m THEN [family |-> 0, token |-> 1] ELSE NoSession],
               tokens = <<Token(m, 0)>>, given = {1}, MaxTokens >= 1
        PROVE  SessionInv
    <3>1. /\ Token(m, 0) \in TokenRecords /\ Token(m, 0).member = m /\ Token(m, 0).family = 0
          /\ Token(m, 0).shown = 0 /\ Token(m, 0).rotated = 0
      BY TokenIs
    <3>2. /\ tokens \in Seq(TokenRecords) /\ Len(tokens) = 1 /\ tokens[1] = Token(m, 0)
          /\ Made = {1}
      BY <2>4, <3>1 DEF Made
    <3>3. session \in [Members -> [family : Nat, token : Nat] \cup {NoSession}]
      BY <2>4
    <3>4. TokenTyped
      BY <2>1, <2>4, <3>2, <3>3, AccountAssumption DEF TokenTyped, TokenRecords
    <3>5. FamiliesFit
      BY <2>1, <3>1, <3>2 DEF FamiliesFit
    <3>6. \A n \in Members : session[n] # NoSession =>
            n = m /\ session[n].token = 1 /\ session[n].family = 0
      BY <2>4
    <3>7. \A t \in Made : used[t] = 0
      BY <2>1, <2>4, <3>2, AccountAssumption
    <3>8. SessionsFit
      BY <2>1, <3>1, <3>2, <3>6, <3>7 DEF SessionsFit
    <3> QED
      BY <2>2, <3>4, <3>5, <3>8 DEF SessionInv
  <2> QED
    <3>1. PICK old \in SUBSET Known :
            \/ /\ session = [m \in Members |-> NoSession]
               /\ tokens = <<>> /\ given = {}
            \/ \E m \in old :
                 /\ session = [n \in Members |->
                      IF n = m THEN [family |-> 0, token |-> 1] ELSE NoSession]
                 /\ tokens = <<Token(m, 0)>> /\ given = {1}
      BY DEF Init
    <3>2. old \subseteq Members /\ MaxTokens >= 1
      BY AccountAssumption
    <3> QED
      BY <3>1, <3>2, <2>3, <2>4
<1> QED
  BY <1>2, <1>3, <1>4, <1>5 DEF AccountInv

LEMMA Elsewhere ==
  ASSUME NEW r \in {Idle} \cup SignupCalls \cup LoginCalls
  PROVE  r.step \notin {"issued", "shown"}
BY DEF Idle, SignupCalls, LoginCalls, SignupSteps, LoginSteps

(* A step of one call that touches neither sessions nor members. *)
LEMMA CallOnly ==
  ASSUME MemberInv, SessionInv, NEW c \in Calls,
         UNCHANGED <<member, firsts, session, used, tokens, given, dead>>,
         \A d \in Calls : d # c => call'[d] = call[d],
         call'[c] \in {Idle} \cup SignupCalls
  PROVE  MemberInv' /\ SessionInv'
<1>1. call'[c] \notin LoginCalls /\ call'[c].step \notin {"issued", "shown"}
  BY NotLogin, Elsewhere
<1> QED
  BY <1>1, MemberKept, SessionKept

LEMMA SignupsStep ==
  ASSUME AccountInv, NEW c \in Calls,
         (\E m \in Members : Signup(c, m)) \/ Hashed(c) \/ Insert(c)
  PROVE  AccountInv'
<1> USE DEF AccountInv
<1>1. ASSUME NEW m \in Members, Signup(c, m) PROVE AccountInv'
  <2> DEFINE next == [step |-> "hashing", member |-> m]
  <2>1. /\ CallTyped' /\ call'[c] \in SignupCalls \cup {Idle}
        /\ \A d \in Calls : d # c => call'[d] = call[d]
    BY <1>1, SignupEffect
  <2>2. /\ Admit(c, next) /\ call[c].step = "idle" /\ next.step = "hashing"
        /\ UNCHANGED <<member, firsts, session, used, tokens, given, dead>>
    BY <1>1 DEF Signup, At
  <2>3. PlaceInv'
    BY <2>2, AdmitPlaces DEF Deriving
  <2> QED
    BY <2>1, <2>2, <2>3, CallOnly
<1>2. CASE Hashed(c)
  <2>1. /\ CallTyped' /\ call'[c] \in SignupCalls \cup {Idle}
        /\ \A d \in Calls : d # c => call'[d] = call[d]
    BY <1>2, HashedEffect
  <2>2. /\ Derived(c, {Step(c, "insert")}) /\ call[c].step = "hashing"
        /\ UNCHANGED <<member, firsts, session, used, tokens, given, dead>>
    BY <1>2 DEF Hashed, At
  <2>3. Step(c, "insert").step = "insert"
    <3>1. call[c] \in SignupCalls
      BY <2>2, KindOfCall DEF SignupSteps
    <3> QED
      BY <3>1 DEF Step, SignupCalls
  <2>4. PlaceInv'
    BY <2>2, <2>3, DerivedPlaces DEF Deriving
  <2> QED
    BY <2>1, <2>2, <2>4, CallOnly
<1>3. CASE Insert(c)
  <2>1. /\ Goto(c, Idle) /\ call[c].step = "insert"
        /\ UNCHANGED <<active, session, used, tokens, given, dead>>
    BY <1>3 DEF Insert, At, End
  <2>2. CallTyped' /\ call'[c] = Idle /\ \A d \in Calls : d # c => call'[d] = call[d]
    BY <2>1, GotoEffect, GotoTyped DEF Records
  <2>3. PlaceInv'
    BY <2>1, GotoPlaces DEF Deriving, Idle
  <2>4. SessionInv'
    BY <2>1, <2>2, SessionKept, Elsewhere
  <2> QED
    BY <1>3, <2>2, <2>3, <2>4, InsertMember
<1> QED
  BY <1>1, <1>2, <1>3

LEMMA LoginsStep ==
  ASSUME AccountInv, NEW c \in Calls,
         \/ \E m \in Members, a \in Clients : Login(c, m, a)
         \/ LimitClient(c) \/ ReadMember(c) \/ Verified(c) \/ Rehash(c) \/ Rehashed(c)
         \/ Upgrade(c) \/ MarkLogin(c)
  PROVE  AccountInv'
<1> USE DEF AccountInv
<1>1. ASSUME NEW m \in Members, NEW a \in Clients, Login(c, m, a) PROVE AccountInv'
  <2>1. /\ CallTyped' /\ call'[c] \in LoginCalls
        /\ call'[c].step = "limit" /\ call'[c].hash = NoHash
        /\ \A d \in Calls : d # c => call'[d] = call[d]
    BY <1>1, LoginEffect
  <2>2. /\ UNCHANGED <<member, firsts, active, session, used, tokens, given, dead>>
        /\ call[c].step = "idle" /\ Goto(c, call'[c])
    BY <1>1, <2>1, GotoEffect DEF Login, At
  <2>3. PlaceInv'
    BY <2>1, <2>2, GotoPlaces DEF Deriving
  <2>4. LoginFits(call'[c], member)
    BY <2>1 DEF LoginFits, PastVerify
  <2>5. SessionInv'
    BY <2>1, <2>2, SessionKept, Elsewhere
  <2> QED
    BY <2>1, <2>2, <2>3, <2>4, <2>5, MemberKept
<1>2. ASSUME \/ LimitClient(c) \/ ReadMember(c) \/ Verified(c) \/ Rehash(c) \/ Rehashed(c)
             \/ Upgrade(c) \/ MarkLogin(c)
      PROVE  AccountInv'
  <2>1. call[c].step \in LoginSteps /\ UNCHANGED <<session, used, tokens, given, dead>>
    BY <1>2 DEF LimitClient, ReadMember, Verified, Rehash, Rehashed, Upgrade, MarkLogin, At,
                LoginSteps
  <2>2. call[c] \in LoginCalls
    BY <2>1, KindOfCall
  <2>3. /\ CallTyped' /\ call'[c] \in LoginCalls \cup {Idle}
        /\ \A d \in Calls : d # c => call'[d] = call[d]
        /\ MemberInv' /\ PlaceInv'
    <3>1. CASE ReadMember(c)
      BY <3>1, <2>2, ReadMemberEffect
    <3>2. CASE \/ LimitClient(c) \/ Verified(c) \/ Rehash(c) \/ Rehashed(c)
               \/ Upgrade(c) \/ MarkLogin(c)
      <4>1. /\ CallTyped' /\ GoesOn(c, LoginSteps)
            /\ \A d \in Calls : d # c => call'[d] = call[d]
        BY <3>2, <2>2, LoginStepEffect
      <4>2. call'[c] \in LoginCalls \cup {Idle}
        BY <4>1, <2>2, StepTyped DEF GoesOn, Step
      <4> QED
        BY <4>1, <4>2, <3>2, <2>2, LoginStepInv
    <3> QED
      BY <3>1, <3>2, <1>2
  <2>4. SessionInv'
    BY <2>1, <2>3, SessionKept, Elsewhere
  <2> QED
    BY <2>3, <2>4
<1> QED
  BY <1>1, <1>2

(* An answer makes a token known. *)
LEMMA AnswerSession ==
  ASSUME CallTyped, SessionInv, NEW c \in Calls, Answer(c)
  PROVE  CallTyped' /\ SessionInv' /\ call'[c] = Idle /\ call[c] \notin LoginCalls
<1>0. TokenTyped /\ FamiliesFit /\ SessionsFit /\ AnswersPending
  BY DEF SessionInv
<1>1. call'[c] = Idle /\ (\A d \in Calls : d # c => call'[d] = call[d]) /\ CallTyped'
  BY GotoEffect, GotoTyped DEF Answer, End, Records
<1>2. UNCHANGED <<session, used, tokens, dead>> /\ Made' = Made
  BY DEF Answer, Made
<1>3. given' \subseteq Made
  <2>1. CASE At(c, "issued")
    BY <2>1, <1>0 DEF Answer, AnswersPending, TokenTyped
  <2>2. CASE At(c, "shown") /\ call[c].result = "rotated"
    BY <2>2, <1>0 DEF Answer, AnswersPending, TokenTyped, At
  <2>3. CASE At(c, "shown") /\ call[c].result # "rotated"
    BY <2>3, <1>0 DEF Answer, TokenTyped, At
  <2> QED
    BY <2>1, <2>2, <2>3 DEF Answer, At
<1>4. TokenTyped' /\ FamiliesFit' /\ SessionsFit'
  BY <1>0, <1>2, <1>3 DEF TokenTyped, FamiliesFit, SessionsFit
<1>5. \A d \in Calls : At(d, "issued")' => d # c /\ call'[d] = call[d] /\ At(d, "issued")
  BY <1>1 DEF At, Idle
<1>6. \A d \in Calls : At(d, "shown")' => d # c /\ call'[d] = call[d] /\ At(d, "shown")
  BY <1>1 DEF At, Idle
<1>7. ASSUME NEW d \in Calls, At(d, "issued")'
      PROVE  call[d].token \notin given'
  <2>1. call[d].token \notin given /\ d # c /\ At(d, "issued")
    BY <1>7, <1>0, <1>5 DEF AnswersPending
  <2>2. CASE At(c, "issued")
    BY <2>1, <2>2, <1>0 DEF AnswersPending, Answer
  <2>3. CASE ~At(c, "issued") /\ call[c].result = "rotated"
    BY <2>1, <2>3, <1>0 DEF AnswersPending, Answer, At
  <2>4. CASE ~At(c, "issued") /\ call[c].result # "rotated"
    BY <2>1, <2>4 DEF Answer
  <2> QED
    BY <2>2, <2>3, <2>4
<1>8. AnswersPending'
  <2>1. ASSUME NEW d \in Calls, At(d, "issued")'
        PROVE  /\ call'[d].token \in Made' \ given' /\ call'[d].token \notin dead'
               /\ tokens'[call'[d].token].member = call'[d].member
               /\ tokens'[call'[d].token].rotated = 0
               /\ \A u \in Made' : tokens'[u].family = call'[d].token <=> u = call'[d].token
    BY <2>1, <1>0, <1>2, <1>5, <1>7 DEF AnswersPending
  <2>2. \A d, e \in Calls : At(d, "issued")' /\ At(e, "issued")' /\ d # e =>
          call'[d].token # call'[e].token
    BY <1>0, <1>5 DEF AnswersPending
  <2>3. ASSUME NEW d \in Calls, At(d, "shown")', call'[d].result = "rotated"
        PROVE  /\ call'[d].token \in Made' /\ call'[d].next \in Made'
               /\ tokens'[call'[d].token].rotated = 1
               /\ \A e \in Calls : At(e, "issued")' => call'[e].token # call'[d].next
    BY <2>3, <1>0, <1>2, <1>5, <1>6 DEF AnswersPending
  <2> QED
    BY <2>1, <2>2, <2>3 DEF AnswersPending
<1>9. call[c] \notin LoginCalls
  BY KindOfCall DEF Answer, LoginSteps
<1> QED
  BY <1>1, <1>4, <1>8, <1>9 DEF SessionInv

LEMMA TokensStep ==
  ASSUME AccountInv, NEW c \in Calls,
         \/ Issue(c) \/ Answer(c) \/ SendAgain(c)
         \/ \E m \in Members, t \in given \cup {None} : Refresh(c, m, t)
  PROVE  AccountInv'
<1> USE DEF AccountInv
<1>1. CASE Issue(c)
  <2> DEFINE r == [step |-> "issued", member |-> call[c].member, token |-> Len(tokens) + 1]
  <2>1. call[c] \in LoginCalls /\ call[c].step = "issue"
    BY <1>1, KindOfCall DEF Issue, At, LoginSteps
  <2>2. r \in IssuedCalls /\ r.step = "issued"
    BY <2>1, TokensAre DEF SessionInv, IssuedCalls, LoginCalls
  <2>3. Goto(c, r) /\ UNCHANGED <<member, firsts, active>>
    BY <1>1 DEF Issue
  <2> HIDE DEF r
  <2>4. CallTyped' /\ call'[c] = r /\ \A d \in Calls : d # c => call'[d] = call[d]
    BY <2>2, <2>3, GotoEffect, GotoTyped DEF Records
  <2>5. MemberInv'
    BY <2>2, <2>3, <2>4, NotLogin, MemberKept
  <2>6. PlaceInv'
    BY <2>1, <2>2, <2>3, GotoPlaces DEF Deriving
  <2> QED
    BY <1>1, <2>1, <2>4, <2>5, <2>6, IssueSession
<1>2. CASE Answer(c)
  <2>1. CallTyped' /\ SessionInv' /\ call'[c] = Idle
    BY <1>2, AnswerSession
  <2>2. /\ Goto(c, Idle) /\ UNCHANGED <<member, firsts, active>>
        /\ call[c].step \notin Deriving /\ Idle.step \notin Deriving
    BY <1>2 DEF Answer, End, Deriving, Idle
  <2>3. MemberInv'
    BY <2>1, <2>2, GotoEffect, NotLogin, MemberKept
  <2> QED
    BY <2>1, <2>2, <2>3, GotoPlaces
<1>3. CASE SendAgain(c)
  <2>1. UNCHANGED <<member, firsts, active, given>>
    BY <1>3 DEF SendAgain
  <2>2. CASE /\ At(c, "issued")
             /\ Issued(call[c].member, call[c].token, call[c].token)
             /\ UNCHANGED <<tokens, call, dead>>
    <3>1. CallTyped' /\ MemberInv' /\ PlaceInv'
      BY <2>1, <2>2, PlacesKept DEF CallTyped, MemberInv, FirstLoginOnce
    <3> QED
      BY <3>1, <2>1, <2>2, IssueAgain
  <2>3. CASE /\ At(c, "shown") /\ call[c].result = "rotated"
             /\ Show(call[c].member, call[c].token, call[c].next)
             /\ Goto(c, [call[c] EXCEPT !.result = ScriptResult(call[c].member, call[c].token)])
    <3>1. CallTyped' /\ SessionInv' /\ call'[c] \in ShownCalls
      BY <2>1, <2>3, ShowAgain
    <3>2. \A d \in Calls : d # c => call'[d] = call[d]
      BY <2>3, GotoEffect
    <3>3. MemberInv'
      BY <3>1, <3>2, <2>1, NotLogin, MemberKept
    <3>4. call'[c].step = "shown" /\ call[c].step = "shown"
      BY <3>1, <2>3 DEF ShownCalls, At
    <3>5. PlaceInv'
      BY <3>2, <3>4, <2>1, PlacesKept DEF Deriving
    <3> QED
      BY <3>1, <3>3, <3>5
  <2> QED
    BY <1>3, <2>2, <2>3 DEF SendAgain
<1>4. ASSUME NEW m \in Members, NEW t \in given \cup {None}, Refresh(c, m, t)
      PROVE  AccountInv'
  <2>1. CallTyped' /\ SessionInv' /\ call'[c] \in ShownCalls
    BY <1>4, RefreshSession
  <2>2. UNCHANGED <<member, firsts, active>> /\ call[c].step = "idle"
    BY <1>4 DEF Refresh, At
  <2>3. \A d \in Calls : d # c => call'[d] = call[d]
    BY <1>4, GotoEffect DEF Refresh
  <2>4. call'[c].step = "shown"
    BY <2>1 DEF ShownCalls
  <2>5. MemberInv'
    BY <2>1, <2>2, <2>3, NotLogin, MemberKept
  <2>6. PlaceInv'
    BY <2>2, <2>3, <2>4, PlacesKept DEF Deriving
  <2> QED
    BY <2>1, <2>5, <2>6
<1> QED
  BY <1>1, <1>2, <1>3, <1>4

LEMMA CrashStep ==
  ASSUME AccountInv, NEW p \in Processes, Crash(p)
  PROVE  AccountInv'
<1> USE DEF AccountInv
<1>1. /\ UNCHANGED <<member, firsts, session, used, tokens, given, dead>>
      /\ active' = [active EXCEPT ![p] = 0]
      /\ call' = [d \in Calls |-> IF Home[d] = p THEN Idle ELSE call[d]]
  BY DEF Crash
<1>2. \A d \in Calls : call'[d] = IF Home[d] = p THEN Idle ELSE call[d]
  BY <1>1
<1>3. CallTyped'
  BY <1>1 DEF CallTyped
<1>4. Idle.step = "idle" /\ Idle \notin LoginCalls
  BY NotLogin DEF Idle
<1>5. MemberInv'
  BY <1>1, <1>2, <1>4 DEF MemberInv, FirstLoginOnce
<1>6. SessionInv'
  BY <1>1, <1>2, <1>4, SessionKept
<1>7. PlaceInv'
  <2>1. DerivingAt(p)' = {}
    BY <1>2, <1>4 DEF DerivingAt, Deriving
  <2>2. \A q \in Processes : q # p => DerivingAt(q)' = DerivingAt(q)
    BY <1>2 DEF DerivingAt
  <2>3. \A q \in Processes : active[q] = Cardinality(DerivingAt(q)) /\ active[q] <= Capacity
    BY DEF PlaceInv, PlacesComeBack, DerivingAt
  <2>4. active' \in [Processes -> Nat] /\ active'[p] = 0
        /\ \A q \in Processes : q # p => active'[q] = active[q]
    BY <1>1 DEF PlaceInv
  <2>5. Cardinality(DerivingAt(p)') = 0 /\ 0 <= Capacity
    BY <2>1, FS_EmptySet, AccountAssumption
  <2>6. \A q \in Processes : active'[q] = Cardinality(DerivingAt(q)') /\ active'[q] <= Capacity
    BY <2>2, <2>3, <2>4, <2>5
  <2> QED
    BY <2>4, <2>6 DEF PlaceInv, PlacesComeBack, DerivingAt
<1> QED
  BY <1>3, <1>5, <1>6, <1>7

(* Keys that expire. *)
LEMMA TimeStep ==
  ASSUME AccountInv,
         \/ \E key \in Members \cup Clients : WindowEnds(key)
         \/ \E t \in Made : UsedExpires(t)
         \/ \E m \in Members : SessionExpires(m)
  PROVE  AccountInv'
<1> USE DEF AccountInv
<1>1. UNCHANGED <<member, firsts, active, call, tokens, given, dead>>
  BY DEF WindowEnds, UsedExpires, SessionExpires
<1>2. CallTyped' /\ MemberInv' /\ PlaceInv'
  BY <1>1, PlacesKept DEF CallTyped, MemberInv, FirstLoginOnce
<1>3. /\ \/ used' = used
         \/ \E t \in Made : used' = [used EXCEPT ![t] = NoFamily]
      /\ \/ session' = session
         \/ \E m \in Members : session' = [session EXCEPT ![m] = NoSession]
  BY DEF WindowEnds, UsedExpires, SessionExpires
<1>4. TokenTyped /\ Made' = Made
  BY <1>1 DEF SessionInv, Made
<1>5. used' \in [0 .. MaxTokens -> Nat] /\ \A t \in 0 .. MaxTokens : used'[t] \in {used[t], NoFamily}
  <2>1. used \in [0 .. MaxTokens -> Nat]
    BY <1>4 DEF TokenTyped
  <2>2. CASE used' = used
    BY <2>1, <2>2
  <2>3. ASSUME NEW t \in Made, used' = [used EXCEPT ![t] = 0]
        PROVE  /\ used' \in [0 .. MaxTokens -> Nat]
               /\ \A u \in 0 .. MaxTokens : used'[u] \in {used[u], 0}
    BY <2>1, <2>3
  <2> QED
    BY <1>3, <2>2, <2>3 DEF NoFamily
<1>6. /\ session' \in [Members -> [family : Nat, token : Nat] \cup {NoSession}]
      /\ \A m \in Members : session'[m] \in {session[m], NoSession}
  BY <1>3, <1>4 DEF TokenTyped
<1>7. TokenTyped'
  BY <1>1, <1>4, <1>5, <1>6 DEF TokenTyped
<1>8. FamiliesFit'
  BY <1>1, <1>4, <1>5 DEF SessionInv, FamiliesFit
<1>9. Made \subseteq 0 .. MaxTokens
  BY <1>4, TokensAre
<1>10. SessionsFit'
  <2> SUFFICES ASSUME NEW m \in Members, session'[m] # NoSession
               PROVE  /\ session'[m].token \in Made' /\ session'[m].family \notin dead'
                      /\ tokens'[session'[m].token].member = m
                      /\ tokens'[session'[m].token].family = session'[m].family
                      /\ tokens'[session'[m].token].rotated = 0
                      /\ \A t \in Made' :
                           /\ used'[t] # NoFamily /\ used'[t] = session'[m].family
                           /\ t # session'[m].token
                           => tokens'[t].shown >= 1
    BY DEF SessionsFit
  <2>1. session'[m] = session[m] /\ session[m] # NoSession
    BY <1>6
  <2>2. /\ session[m].token \in Made /\ session[m].family \notin dead
        /\ tokens[session[m].token].member = m
        /\ tokens[session[m].token].family = session[m].family
        /\ tokens[session[m].token].rotated = 0
        /\ \A t \in Made :
             used[t] # NoFamily /\ used[t] = session[m].family /\ t # session[m].token =>
               tokens[t].shown >= 1
    BY <2>1 DEF SessionInv, SessionsFit
  <2>3. \A t \in Made : used'[t] # NoFamily => used'[t] = used[t]
    BY <1>5, <1>9
  <2> QED
    BY <2>1, <2>2, <2>3, <1>1, <1>4
<1>11. AnswersPending'
  BY <1>1, <1>4 DEF SessionInv, AnswersPending, At
<1> QED
  BY <1>2, <1>7, <1>8, <1>10, <1>11 DEF SessionInv

-----------------------------------------------------------------------------
(* The theorems. *)

LEMMA AccountStep ==
  AccountInv /\ [Next]_vars => AccountInv'
<1> SUFFICES ASSUME AccountInv, [Next]_vars PROVE AccountInv'
  OBVIOUS
<1>1. CASE UNCHANGED vars
  BY <1>1, PlacesKept, SessionKept
  DEF vars, AccountInv, CallTyped, MemberInv, FirstLoginOnce
<1>2. ASSUME NEW c \in Calls, NEW m \in Members,
             Signup(c, m) \/ \E a \in Clients : Login(c, m, a)
      PROVE  AccountInv'
  BY <1>2, SignupsStep, LoginsStep
<1>3. ASSUME NEW c \in Calls, NEW m \in Members, NEW t \in given \cup {None}, Refresh(c, m, t)
      PROVE  AccountInv'
  BY <1>3, TokensStep
<1>4. ASSUME NEW c \in Calls, Hashed(c) \/ Insert(c)
      PROVE  AccountInv'
  BY <1>4, SignupsStep
<1>5. ASSUME NEW c \in Calls,
             \/ LimitClient(c) \/ ReadMember(c) \/ Verified(c)
             \/ Rehash(c) \/ Rehashed(c) \/ Upgrade(c) \/ MarkLogin(c)
      PROVE  AccountInv'
  BY <1>5, LoginsStep
<1>6. ASSUME NEW c \in Calls, Issue(c) \/ Answer(c) \/ SendAgain(c)
      PROVE  AccountInv'
  BY <1>6, TokensStep
<1>7. ASSUME NEW p \in Processes, Crash(p)
      PROVE  AccountInv'
  BY <1>7, CrashStep
<1>8. ASSUME \/ \E key \in Members \cup Clients : WindowEnds(key)
             \/ \E t \in Made : UsedExpires(t)
             \/ \E m \in Members : SessionExpires(m)
      PROVE  AccountInv'
  BY <1>8, TimeStep
<1> QED
  BY <1>1, <1>2, <1>3, <1>4, <1>5, <1>6, <1>7, <1>8 DEF Next

(* What a refresh does to tokens and sessions, the first time and again.   *)
LEMMA ReplayEnds ==
  ASSUME SessionInv, NEW m \in Members, NEW t \in Made \cup {None}, NEW next,
         Show(m, t, next), ScriptResult(m, t) # "rotated", UNCHANGED given,
         NEW n \in Members, session[n] # NoSession, session'[n] = NoSession
  PROVE  \E u \in Made : tokens'[u].family = session[n].family /\ tokens'[u].shown = 2
<1> USE DEF NoFamily, None
<1>1. session \in [Members -> [family : Nat, token : Nat] \cup {NoSession}]
  BY DEF SessionInv, TokenTyped
<1>2. n = m /\ Revoked(m, t) /\ ScriptResult(m, t) = "replayed"
  BY <1>1 DEF Show, Rotated
<1>3. used[t] # 0 /\ used[t] = session[m].family /\ t # session[m].token
  BY <1>2 DEF Revoked, ScriptResult, Current
<1>4. t \in 0 .. MaxTokens
  BY TokensAre, AccountAssumption DEF SessionInv
<1>5. t \in Made /\ tokens[t].family = used[t]
  BY <1>3, <1>4 DEF SessionInv, FamiliesFit
<1>6. tokens[t].shown >= 1
  BY <1>2, <1>3, <1>5 DEF SessionInv, SessionsFit
<1> QED
  BY <1>2, <1>3, <1>5, <1>6, ShowOther

RotateOnce ==
  /\ \A t \in Made : tokens'[t].rotated <= 1
  /\ \A t \in Made : tokens'[t].rotated > tokens[t].rotated => tokens[t].family \notin dead

EndForCause ==
  \A m \in Members :
    session[m] # NoSession /\ session'[m] = NoSession =>
      \/ \A t \in Made : tokens[t].member = m => used[t] = NoFamily
      \/ \E t \in Made : tokens'[t].family = session[m].family /\ tokens'[t].shown = 2

LEMMA NothingRotates ==
  ASSUME SessionInv, \A t \in Made : tokens'[t].rotated = tokens[t].rotated
  PROVE  RotateOnce
<1>1. \A t \in Made : tokens[t].rotated <= 1 /\ tokens[t].rotated \in Nat
  BY TokensAre DEF SessionInv, FamiliesFit, TokenRecords
<1> QED
  BY <1>1 DEF RotateOnce

LEMMA RefreshProperties ==
  ASSUME AccountInv, NEW c \in Calls, NEW m \in Members, NEW t \in given \cup {None},
         Refresh(c, m, t)
  PROVE  RotateOnce /\ EndForCause
<1>0. SessionInv /\ TokenTyped /\ t \in Made \cup {None} /\ Len(tokens) \in Nat
  BY TokensAre DEF AccountInv, SessionInv, TokenTyped
<1>1. /\ Show(m, t, Len(tokens) + 1) /\ UNCHANGED given
      /\ Len(tokens) + 1 <= MaxTokens \/ ScriptResult(m, t) # "rotated"
  BY DEF Refresh
<1>2. CASE ScriptResult(m, t) = "rotated"
  <2>1. /\ t \in Made /\ tokens[t].rotated = 0 /\ tokens[t].family \notin dead
        /\ \A u \in Made : u # t => tokens'[u] = tokens[u]
        /\ tokens'[t].rotated = 1
    BY <1>0, <1>1, <1>2, ShowRotated
  <2>2. \A u \in Made : tokens[u].rotated <= 1 /\ tokens[u].rotated \in Nat
    BY <1>0, TokensAre DEF SessionInv, FamiliesFit, TokenRecords
  <2>3. RotateOnce
    BY <2>1, <2>2 DEF RotateOnce
  <2>4. \A n \in Members : session[n] # NoSession => session'[n] # NoSession
    <3> DEFINE f == FamilyFor(m, t, Len(tokens) + 1)
    <3>1. session' = [session EXCEPT ![m] = [family |-> f, token |-> Len(tokens) + 1]]
      BY <1>1, <1>2 DEF Show, Rotated
    <3>2. f \in Nat
      BY <1>0 DEF FamilyFor, TokenTyped
    <3>3. [family |-> f, token |-> Len(tokens) + 1] # NoSession
      BY <3>2, <1>0, AccountAssumption
    <3> HIDE DEF f
    <3> QED
      BY <3>1, <3>3, <1>0 DEF TokenTyped
  <2> QED
    BY <2>3, <2>4 DEF EndForCause
<1>3. CASE ScriptResult(m, t) # "rotated"
  <2>1. RotateOnce
    BY <1>0, <1>1, <1>3, ShowOther, NothingRotates
  <2> QED
    BY <2>1, <1>0, <1>1, <1>3, ReplayEnds DEF EndForCause
<1> QED
  BY <1>2, <1>3

LEMMA SessionProperties ==
  AccountInv /\ [Next]_vars => RotateOnce /\ EndForCause
<1> SUFFICES ASSUME AccountInv, [Next]_vars PROVE RotateOnce /\ EndForCause
  OBVIOUS
<1>0. SessionInv /\ CallTyped /\ TokenTyped
  BY DEF AccountInv, SessionInv
<1>1. ASSUME UNCHANGED <<tokens, session>>
      PROVE  RotateOnce /\ EndForCause
  BY <1>0, <1>1, NothingRotates DEF EndForCause
<1>2. ASSUME NEW c \in Calls, Issue(c)
      PROVE  RotateOnce /\ EndForCause
  <2> DEFINE m == call[c].member
             t == Len(tokens) + 1
  <2>1. m \in Members
    BY <1>0, <1>2, KindOfCall DEF Issue, At, LoginSteps, LoginCalls
  <2>2. t \in Nat
    BY <1>0, TokensAre
  <2>3. /\ tokens' = Append(tokens, Token(m, t))
        /\ session' = [session EXCEPT ![m] = [family |-> t, token |-> t]]
    BY <1>2 DEF Issue, Issued
  <2> HIDE DEF m, t
  <2>4. \A u \in Made : tokens'[u] = tokens[u]
    <3> DEFINE r == Token(m, t)
    <3>1. r \in TokenRecords /\ tokens' = Append(tokens, r)
      BY <2>1, <2>2, <2>3, TokenIs
    <3> HIDE DEF r
    <3> QED
      BY <3>1, <1>0, Appended
  <2>5. [family |-> t, token |-> t] # NoSession
    BY <2>2, AccountAssumption
  <2>6. \A n \in Members : session[n] # NoSession => session'[n] # NoSession
    BY <2>3, <2>5, <1>0 DEF TokenTyped
  <2> QED
    BY <2>4, <2>6, <1>0, NothingRotates DEF EndForCause
<1>3. ASSUME NEW c \in Calls, SendAgain(c)
      PROVE  RotateOnce /\ EndForCause
  <2>1. CASE /\ At(c, "issued")
             /\ Issued(call[c].member, call[c].token, call[c].token)
             /\ UNCHANGED <<tokens, call, dead>>
    <3> DEFINE m == call[c].member
               t == call[c].token
    <3>1. t \in Nat
      BY <1>0, <2>1, KindOfCall DEF At, IssuedCalls
    <3>2. [family |-> t, token |-> t] # NoSession
      BY <3>1, AccountAssumption
    <3>3. session' = [session EXCEPT ![m] = [family |-> t, token |-> t]]
      BY <2>1 DEF Issued
    <3> HIDE DEF m, t
    <3>4. \A n \in Members : session[n] # NoSession => session'[n] # NoSession
      BY <3>2, <3>3, <1>0 DEF TokenTyped
    <3> QED
      BY <3>4, <2>1, <1>0, NothingRotates DEF EndForCause
  <2>2. CASE /\ At(c, "shown") /\ call[c].result = "rotated"
             /\ Show(call[c].member, call[c].token, call[c].next)
    <3>1. call[c].member \in Members
      BY <1>0, <2>2, KindOfCall DEF At, ShownCalls
    <3>2. ScriptResult(call[c].member, call[c].token) # "rotated"
      BY <3>1, <1>0, <2>2, NeverTwice
    <3>3. call[c].token \in Made
      BY <1>0, <2>2 DEF SessionInv, AnswersPending
    <3>4. UNCHANGED given
      BY <1>3 DEF SendAgain
    <3>5. RotateOnce
      BY <3>1, <3>2, <3>3, <3>4, <2>2, <1>0, ShowOther, NothingRotates
    <3> QED
      BY <3>1, <3>2, <3>3, <3>4, <3>5, <2>2, <1>0, ReplayEnds DEF EndForCause
  <2> QED
    BY <2>1, <2>2, <1>3 DEF SendAgain
<1>4. ASSUME NEW m \in Members, SessionExpires(m)
      PROVE  RotateOnce /\ EndForCause
  <2>1. /\ UNCHANGED tokens /\ session' = [session EXCEPT ![m] = NoSession]
        /\ \A t \in Made : tokens[t].member = m => used[t] = NoFamily
    BY <1>4 DEF SessionExpires
  <2>2. \A n \in Members : n # m => session'[n] = session[n]
    BY <2>1, <1>0 DEF TokenTyped
  <2>3. EndForCause
    BY <2>1, <2>2 DEF EndForCause
  <2> QED
    BY <2>1, <2>3, <1>0, NothingRotates
<1> QED
  <2>1. CASE UNCHANGED vars
    BY <2>1, <1>1 DEF vars
  <2>2. CASE \E c \in Calls, m \in Members, t \in given \cup {None} : Refresh(c, m, t)
    BY <2>2, RefreshProperties
  <2>3. CASE \/ \E c \in Calls, m \in Members : Signup(c, m) \/ \E a \in Clients : Login(c, m, a)
             \/ \E c \in Calls :
                  \/ Hashed(c) \/ Insert(c)
                  \/ LimitClient(c) \/ ReadMember(c) \/ Verified(c)
                  \/ Rehash(c) \/ Rehashed(c) \/ Upgrade(c) \/ MarkLogin(c) \/ Answer(c)
             \/ \E p \in Processes : Crash(p)
             \/ \E key \in Members \cup Clients : WindowEnds(key)
             \/ \E t \in Made : UsedExpires(t)
    <3>1. UNCHANGED <<tokens, session>>
      BY <2>3 DEF Signup, Login, Hashed, Insert, LimitClient, ReadMember, Verified, Rehash,
                  Rehashed, Upgrade, MarkLogin, Answer, Crash, WindowEnds, UsedExpires
    <3> QED
      BY <3>1, <1>1
  <2> QED
    BY <2>1, <2>2, <2>3, <1>2, <1>3, <1>4 DEF Next

(* However many logins of a member run at once, one of them is taken for   *)
(* the first (auth.service.ts 46-54).                                      *)
THEOREM FirstLoginOnceCorrect == Spec => []FirstLoginOnce
<1>1. AccountInv => FirstLoginOnce
  BY DEF AccountInv, MemberInv
<1> QED
  BY <1>1, AccountInit, AccountStep, PTL DEF Spec

(* A process counts exactly the key derivations that run in it, and never  *)
(* more than it has room for (password-kdf.admission.ts 10-19).            *)
THEOREM PlacesComeBackCorrect == Spec => []PlacesComeBack
<1>1. AccountInv => PlacesComeBack
  BY DEF AccountInv, PlaceInv
<1> QED
  BY <1>1, AccountInit, AccountStep, PTL DEF Spec

(* A refresh token is exchanged once, and no token of a family that a      *)
(* second use has ended is exchanged any more (token.provider.ts 32-66).   *)
THEOREM TokensRotateOnceCorrect == Spec => TokensRotateOnce
<1>1. AccountInv /\ [Next]_vars =>
        [/\ \A t \in Made : tokens'[t].rotated <= 1
         /\ \A t \in Made : tokens'[t].rotated > tokens[t].rotated => tokens[t].family \notin dead]_vars
  BY SessionProperties DEF RotateOnce
<1> QED
  BY <1>1, AccountInit, AccountStep, PTL DEF Spec, TokensRotateOnce

(* A session ends before its time only by a second use of one of its own   *)
(* tokens (token.provider.ts 19-30, 52-57).                                *)
THEOREM SessionsEndForCauseCorrect == Spec => SessionsEndForCause
<1>1. AccountInv /\ [Next]_vars =>
        [\A m \in Members :
           session[m] # NoSession /\ session'[m] = NoSession =>
             \/ \A t \in Made : tokens[t].member = m => used[t] = NoFamily
             \/ \E t \in Made : tokens'[t].family = session[m].family /\ tokens'[t].shown = 2]_vars
  BY SessionProperties DEF EndForCause
<1> QED
  BY <1>1, AccountInit, AccountStep, PTL DEF Spec, SessionsEndForCause
=============================================================================
