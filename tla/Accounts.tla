------------------------------- MODULE Accounts -------------------------------
(***************************************************************************)
(* Members, logins and sessions (src/src/api/member, src/src/api/auth,     *)
(* src/src/global/jwt).                                                    *)
(*                                                                         *)
(* A process serves many calls at once; between two awaits of one call the *)
(* others run.  A login counts against two limits, derives a key from the  *)
(* password, replaces an outdated hash, claims to be the member's first    *)
(* and issues a session.  A session is one refresh token at a time: every  *)
(* use exchanges it for the next of its family, and a token that comes a   *)
(* second time ends the family.  Redis runs each script in one piece; an   *)
(* answer may be lost, and the client library then sends the script again. *)
(*                                                                         *)
(* Tokens are numbered in the order they are made, a family has the number *)
(* of its first token.  The keys token:family:<family> are written and     *)
(* deleted but never read, and are left out, as are names, access tokens,  *)
(* roles and everything about a password but whether it is the right one.  *)
(***************************************************************************)
EXTENDS Naturals, Sequences, FiniteSets

CONSTANTS
  Members,         \* e-mail addresses
  Clients,         \* addresses that log in
  Calls, Home,     \* Home[c]: the process that serves the call c
  Known,           \* the members an older release left behind
  Capacity,        \* key derivations a process runs at once
  AccountLimit, ClientLimit,
  MaxTokens, MaxFaults,   \* bounds of the model
  NoSession, NoHash

ASSUME AccountAssumption ==
  /\ Capacity \in Nat \ {0} /\ AccountLimit \in Nat /\ ClientLimit \in Nat
  /\ MaxTokens \in Nat \ {0} /\ MaxFaults \in Nat
  /\ Known \subseteq Members /\ Members \cap Clients = {}
  /\ IsFiniteSet(Calls) /\ NoHash \notin {"legacy", "current"}
  /\ NoSession \notin [family : Nat, token : Nat]

Processes == {Home[c] : c \in Calls}

VARIABLES
  member,          \* MemberEntity: its hash, and whether it has logged in
  active,          \* PasswordKdfAdmission.active of each process
  attempts,        \* auth:login:account:* and auth:login:client:*
  session,         \* token:<member>
  used,            \* token:used:<token>, the family the token was of
  tokens,          \* every refresh token made so far
  given,           \* the tokens an answer has brought to a client
  call,            \* what each call is about to do
  faults,
  \* what has been observed, for the properties
  firsts,          \* how many logins of a member were taken for the first
  dead             \* the families a second use by their member has ended

vars == <<member, active, attempts, session, used, tokens, given, call,
          faults, firsts, dead>>

Idle == [step |-> "idle"]
NoFamily == 0
Legacy   == 0      \* the family of a token stored before there were any
None     == 0      \* a token nobody ever made

Made == 1 .. Len(tokens)

---------------------------------------------------------------------------------
(* The scripts.  Each is a set of next values, run once per request.       *)

(* A login replaces the session: its token counts as used from now on.     *)
Marked(m) ==
  IF session[m] # NoSession /\ session[m].family # Legacy
  THEN [used EXCEPT ![session[m].token] = session[m].family]
  ELSE used

(* ISSUE_SESSION_SCRIPT *)
Issued(m, t, family) ==
  /\ used' = Marked(m)
  /\ session' = [session EXCEPT ![m] = [family |-> family, token |-> t]]

Current(m, t) == session[m] # NoSession /\ session[m].token = t

(* Mutant of Revoked: any session of the member ends. *)
RevokedAny(m, t) == session[m] # NoSession

(* A second use ends the session it belongs to, not a later one.           *)
Revoked(m, t) == session[m] # NoSession /\ session[m].family = used[t]

(* Mutant of ScriptResult: the session may have ended in the meantime. *)
ResultUnchecked(m, t) ==
  IF Current(m, t) \/ (used[t] = NoFamily /\ t # None) THEN "rotated"
  ELSE IF used[t] # NoFamily THEN "replayed"
  ELSE "invalid"

ScriptResult(m, t) ==
  IF Current(m, t) THEN "rotated"
  ELSE IF used[t] # NoFamily THEN "replayed"
  ELSE "invalid"

FamilyFor(m, t, next) ==
  IF session[m] # NoSession /\ session[m].family # Legacy THEN session[m].family ELSE next

(* ROTATE_SESSION_SCRIPT *)
Rotated(m, t, next) ==
  \/ /\ ScriptResult(m, t) = "rotated"
     /\ used' = [used EXCEPT ![t] = FamilyFor(m, t, next)]
     /\ session' = [session EXCEPT ![m] = [family |-> FamilyFor(m, t, next), token |-> next]]
     /\ UNCHANGED dead
  \/ /\ ScriptResult(m, t) = "replayed"
     /\ session' = IF Revoked(m, t) THEN [session EXCEPT ![m] = NoSession] ELSE session
     /\ dead' = IF tokens[t].member = m THEN dead \cup {used[t]} ELSE dead
     /\ UNCHANGED used
  \/ /\ ScriptResult(m, t) = "invalid"
     /\ UNCHANGED <<used, session, dead>>

---------------------------------------------------------------------------------
(* Passwords.                                                              *)

Goto(c, next) == call' = [call EXCEPT ![c] = next]
At(c, step)   == call[c].step = step
Step(c, step) == [call[c] EXCEPT !.step = step]
End(c)        == Goto(c, Idle)

(* PasswordKdfAdmission.run, up to its operation: the call goes on at next *)
(* or is told that the process is busy.                                    *)
Admit(c, next) ==
  \/ /\ active[Home[c]] < Capacity
     /\ active' = [active EXCEPT ![Home[c]] = @ + 1]
     /\ Goto(c, next)
  \/ /\ active[Home[c]] >= Capacity
     /\ End(c)
     /\ UNCHANGED active

(* Mutant of Derived: a derivation that fails keeps its place. *)
DerivedOrKept(c, outcomes) ==
  \E next \in outcomes \cup {Idle} :
    /\ active' = IF next = Idle THEN active ELSE [active EXCEPT ![Home[c]] = @ - 1]
    /\ Goto(c, next)

(* Its end, whether the operation succeeded or threw.                      *)
Derived(c, outcomes) ==
  \E next \in outcomes \cup {Idle} :
    /\ active' = [active EXCEPT ![Home[c]] = @ - 1]
    /\ Goto(c, next)

---------------------------------------------------------------------------------
(* Signing up.                                                             *)

Signup(c, m) ==
  /\ At(c, "idle")
  /\ Admit(c, [step |-> "hashing", member |-> m])
  /\ UNCHANGED <<member, attempts, session, used, tokens, given, faults, firsts, dead>>

Hashed(c) ==
  /\ At(c, "hashing")
  /\ Derived(c, {Step(c, "insert")})
  /\ UNCHANGED <<member, attempts, session, used, tokens, given, faults, firsts, dead>>

(* The unique key on the address decides between two sign-ups.             *)
Insert(c) ==
  /\ At(c, "insert")
  /\ member' = IF member[call[c].member].hash = NoHash
               THEN [member EXCEPT ![call[c].member] = [hash |-> "current", seen |-> FALSE]]
               ELSE member
  /\ End(c)
  /\ UNCHANGED <<active, attempts, session, used, tokens, given, faults, firsts, dead>>

---------------------------------------------------------------------------------
(* Logging in.                                                             *)

Limit(key) == IF key \in Members THEN AccountLimit ELSE ClientLimit

(* incrementWithExpiry.  Beyond the limit the count makes no difference.   *)
Increment(key) ==
  attempts' = [attempts EXCEPT ![key] = IF @ <= Limit(key) THEN @ + 1 ELSE @]

(* LoginRateLimiter.assertAllowed sends both increments side by side.      *)
Login(c, m, client) ==
  /\ At(c, "idle")
  /\ Increment(m)
  /\ Goto(c, [step |-> "limit", member |-> m, client |-> client,
              allowed |-> attempts[m] < AccountLimit, hash |-> NoHash, seen |-> FALSE])
  /\ UNCHANGED <<member, active, session, used, tokens, given, faults, firsts, dead>>

LimitClient(c) ==
  /\ At(c, "limit")
  /\ Increment(call[c].client)
  /\ Goto(c, IF call[c].allowed /\ attempts[call[c].client] < ClientLimit
             THEN Step(c, "read") ELSE Idle)
  /\ UNCHANGED <<member, active, session, used, tokens, given, faults, firsts, dead>>

(* The row is read, then a place asked for.  Nobody else can tell the two  *)
(* apart: the row is only looked at when the derivation is done.           *)
ReadMember(c) ==
  /\ At(c, "read")
  /\ Admit(c, [call[c] EXCEPT !.step = "verifying", !.hash = member[call[c].member].hash,
                              !.seen = member[call[c].member].seen])
  /\ UNCHANGED <<member, attempts, session, used, tokens, given, faults, firsts, dead>>

(* PasswordService.verify.  Idle is also the answer to a wrong password    *)
(* and to an address nobody signed up with, which costs a derivation too.  *)
Verified(c) ==
  /\ At(c, "verifying")
  /\ Derived(c, {Step(c, s) : s \in IF call[c].hash = NoHash THEN {}
                                    ELSE IF call[c].hash = "current" THEN {"mark"}
                                    ELSE {"rehash"}})
  /\ UNCHANGED <<member, attempts, session, used, tokens, given, faults, firsts, dead>>

Rehash(c) ==
  /\ At(c, "rehash")
  /\ Admit(c, Step(c, "rehashing"))
  /\ UNCHANGED <<member, attempts, session, used, tokens, given, faults, firsts, dead>>

Rehashed(c) ==
  /\ At(c, "rehashing")
  /\ Derived(c, {Step(c, "upgrade")})
  /\ UNCHANGED <<member, attempts, session, used, tokens, given, faults, firsts, dead>>

(* Only the hash that was verified is replaced.                            *)
Upgrade(c) ==
  /\ At(c, "upgrade")
  /\ member' = IF member[call[c].member].hash = call[c].hash
               THEN [member EXCEPT ![call[c].member].hash = "current"]
               ELSE member
  /\ Goto(c, Step(c, "mark"))
  /\ UNCHANGED <<active, attempts, session, used, tokens, given, faults, firsts, dead>>

(* Mutant of IsFirst: the row as it was when the login began. *)
IsFirstAsRead(c) == ~call[c].seen

(* The rows the conditional update changed: one or none.                   *)
IsFirst(c) == ~member[call[c].member].seen

MarkLogin(c) ==
  /\ At(c, "mark")
  /\ member' = [member EXCEPT ![call[c].member].seen = TRUE]
  /\ firsts' = [firsts EXCEPT ![call[c].member] = IF IsFirst(c) THEN @ + 1 ELSE @]
  /\ Goto(c, Step(c, "issue"))
  /\ UNCHANGED <<active, attempts, session, used, tokens, given, faults, dead>>

Token(m, family) == [member |-> m, family |-> family, shown |-> 0, rotated |-> 0]

(* TokenProvider.generateToken *)
Issue(c) ==
  LET m == call[c].member
      t == Len(tokens) + 1
  IN  /\ At(c, "issue") /\ t <= MaxTokens
      /\ tokens' = Append(tokens, Token(m, t))
      /\ Issued(m, t, t)
      /\ Goto(c, [step |-> "issued", member |-> m, token |-> t])
      /\ UNCHANGED <<member, active, attempts, given, faults, firsts, dead>>

---------------------------------------------------------------------------------
(* Refreshing.                                                             *)

(* A token that was shown and answered with result. *)
Shown(token, result, family) ==
  [member  |-> token.member,
   family  |-> IF token.family = Legacy /\ result = "rotated" THEN family ELSE token.family,
   shown   |-> IF token.shown < 2 THEN token.shown + 1 ELSE 2,
   rotated |-> IF result = "rotated" THEN token.rotated + 1 ELSE token.rotated]

(* The script with token t shown and next to follow it.                    *)
Show(m, t, next) ==
  LET result == ScriptResult(m, t)
      family == FamilyFor(m, t, next)
      more   == IF result = "rotated" /\ next = Len(tokens) + 1
                THEN Append(tokens, Token(m, family)) ELSE tokens
  IN  /\ tokens' = IF t = None THEN more
                   ELSE [more EXCEPT ![t] = Shown(tokens[t], result, family)]
      /\ Rotated(m, t, next)

(* TokenProvider.rotateToken, for the member of an expired access token    *)
(* and any token a client was ever given, or one that is made up.          *)
Refresh(c, m, t) ==
  LET next == Len(tokens) + 1
  IN  /\ At(c, "idle")
      /\ next <= MaxTokens \/ ScriptResult(m, t) # "rotated"
      /\ member[m].hash # NoHash
      /\ t \in given \cup {None}
      /\ Show(m, t, next)
      /\ Goto(c, [step |-> "shown", member |-> m, token |-> t, next |-> next,
                  result |-> ScriptResult(m, t)])
      /\ UNCHANGED <<member, active, attempts, given, faults, firsts>>

(* The answer reaches the client, which has a token from now on.           *)
Answer(c) ==
  /\ call[c].step \in {"issued", "shown"}
  /\ given' = IF At(c, "issued") THEN given \cup {call[c].token}
              ELSE IF call[c].result = "rotated" THEN given \cup {call[c].next}
              ELSE given
  /\ End(c)
  /\ UNCHANGED <<member, active, attempts, session, used, tokens, faults, firsts, dead>>

(* The connection to Redis broke before the answer came: the library sends *)
(* the script again, with the same arguments.                              *)
SendAgain(c) ==
  /\ faults < MaxFaults /\ faults' = faults + 1
  /\ \/ /\ At(c, "issued")
        /\ Issued(call[c].member, call[c].token, call[c].token)
        /\ UNCHANGED <<tokens, call, dead>>
     \/ /\ At(c, "shown") /\ call[c].result = "rotated"
        /\ Show(call[c].member, call[c].token, call[c].next)
        /\ Goto(c, [call[c] EXCEPT !.result = ScriptResult(call[c].member, call[c].token)])
  /\ UNCHANGED <<member, active, attempts, given, firsts>>

(* The process dies with everything it holds in memory.                    *)
Crash(p) ==
  /\ faults < MaxFaults /\ faults' = faults + 1
  /\ call' = [c \in Calls |-> IF Home[c] = p THEN Idle ELSE call[c]]
  /\ active' = [active EXCEPT ![p] = 0]
  /\ UNCHANGED <<member, attempts, session, used, tokens, given, firsts, dead>>

---------------------------------------------------------------------------------
(* Time.                                                                   *)

WindowEnds(key) ==
  /\ attempts[key] > 0
  /\ attempts' = [attempts EXCEPT ![key] = 0]
  /\ UNCHANGED <<member, active, session, used, tokens, given, call, faults, firsts, dead>>

UsedExpires(t) ==
  /\ used[t] # NoFamily
  /\ used' = [used EXCEPT ![t] = NoFamily]
  /\ UNCHANGED <<member, active, attempts, session, tokens, given, call, faults, firsts, dead>>

(* Every script that marks a token sets the session with the same time to  *)
(* live: the session outlives the marks.                                   *)
SessionExpires(m) ==
  /\ session[m] # NoSession
  /\ \A t \in Made : tokens[t].member = m => used[t] = NoFamily
  /\ session' = [session EXCEPT ![m] = NoSession]
  /\ UNCHANGED <<member, active, attempts, used, tokens, given, call, faults, firsts, dead>>

(* A member from before has a hash of the old kind and may hold a session  *)
(* of the old kind, which is the token itself.                             *)
Init ==
  /\ \E old \in SUBSET Known :
       /\ member = [m \in Members |->
            [hash |-> IF m \in old THEN "legacy" ELSE NoHash, seen |-> FALSE]]
       /\ \/ /\ session = [m \in Members |-> NoSession]
             /\ tokens = <<>> /\ given = {}
          \/ \E m \in old :
               /\ session = [n \in Members |->
                    IF n = m THEN [family |-> Legacy, token |-> 1] ELSE NoSession]
               /\ tokens = <<Token(m, Legacy)>> /\ given = {1}
  /\ active = [p \in Processes |-> 0]
  /\ attempts = [key \in Members \cup Clients |-> 0]
  /\ used = [t \in 0 .. MaxTokens |-> NoFamily]
  /\ call = [c \in Calls |-> Idle]
  /\ faults = 0
  /\ firsts = [m \in Members |-> 0]
  /\ dead = {}

Next ==
  \/ \E c \in Calls, m \in Members : Signup(c, m) \/ \E a \in Clients : Login(c, m, a)
  \/ \E c \in Calls, m \in Members, t \in given \cup {None} : Refresh(c, m, t)
  \/ \E c \in Calls :
       \/ Hashed(c) \/ Insert(c)
       \/ LimitClient(c) \/ ReadMember(c) \/ Verified(c)
       \/ Rehash(c) \/ Rehashed(c) \/ Upgrade(c) \/ MarkLogin(c) \/ Issue(c)
       \/ Answer(c) \/ SendAgain(c)
  \/ \E p \in Processes : Crash(p)
  \/ \E key \in Members \cup Clients : WindowEnds(key)
  \/ \E t \in Made : UsedExpires(t)
  \/ \E m \in Members : SessionExpires(m)

Spec == Init /\ [][Next]_vars

---------------------------------------------------------------------------------
(* Properties.                                                             *)

(* A refresh token is exchanged once, whoever sends it how often, on       *)
(* however many connections; and once a second use by its own member has   *)
(* ended a family, no token of it is exchanged any more                    *)
(* (token.provider.ts 32-66).                                              *)
TokensRotateOnce ==
  [][/\ \A t \in Made : tokens'[t].rotated <= 1
     /\ \A t \in Made : tokens'[t].rotated > tokens[t].rotated => tokens[t].family \notin dead]_vars

(* A member stays logged in: a session ends before its time only when one  *)
(* of its own tokens came twice.  A token left over from an earlier login  *)
(* never ends the session of a later one (token.provider.ts 19-30, 52-57). *)
SessionsEndForCause ==
  [][\A m \in Members :
       session[m] # NoSession /\ session'[m] = NoSession =>
         \/ \A t \in Made : tokens[t].member = m => used[t] = NoFamily
         \/ \E t \in Made : tokens'[t].family = session[m].family /\ tokens'[t].shown = 2]_vars

(* However many logins of a member run at once, on however many processes, *)
(* one of them is taken for the first, and never another one later         *)
(* (auth.service.ts 46-54).                                                *)
FirstLoginOnce == \A m \in Members : firsts[m] = (IF member[m].seen THEN 1 ELSE 0)

Deriving == {"hashing", "verifying", "rehashing"}

(* A process never runs more derivations than it has room for, and every   *)
(* place comes back, also from a derivation that failed                    *)
(* (password-kdf.admission.ts 10-19).                                      *)
PlacesComeBack ==
  \A p \in Processes :
    /\ active[p] = Cardinality({c \in Calls : Home[c] = p /\ call[c].step \in Deriving})
    /\ active[p] <= Capacity
===============================================================================
