------------------------ MODULE SessionTokensProofs -------------------------
(***************************************************************************)
(* Proofs about SessionTokens: type correctness, that a revocation         *)
(* outlives its token, and that a rotated token is refused, for any number *)
(* of goroutines and tokens and any times to live.                         *)
(***************************************************************************)
EXTENDS SessionTokens, TLAPS

\* An entry never expires before its token.
EntriesOutlive == \A t \in Tokens : \A e \in cache[t] : Expiry(t) <= e

\* What the store holds, and what has been revoked, has been issued; a revoked token
\* has an entry until it expires.
RevokedIsStored ==
  /\ \A t \in Tokens : cache[t] # {} => t \notin Unissued
  /\ \A t \in revoked : now < Expiry(t) => cache[t] # {}

\* A call holds an issued token.  The time to live it is about to store covers the
\* token, and an entry it is about to delete is that of an expired token.
CallsAreSound ==
  \A r \in Requests :
    /\ g[r].at # "idle" => g[r].token \in Tokens \ Unissued
    /\ g[r].late => g[r].op \in Rotations
    /\ g[r].at = "set" => Expiry(g[r].token) <= now + g[r].ttl
    /\ g[r].at = "drop" => Expiry(g[r].token) < now
    /\ (g[r].at = "sign" /\ g[r].op \in Rotations) => g[r].token \in revoked

RotatedIsRevoked == rotated \subseteq revoked

IInv ==
  /\ TypeOK
  /\ EntriesOutlive
  /\ RevokedIsStored
  /\ CallsAreSound
  /\ RotatedIsRevoked

-----------------------------------------------------------------------------
\* Rounding down to whole seconds (exp.Unix()) stays within the bounds of a time.
LEMMA WholeSecondsBounds ==
  ASSUME NEW a \in Nat, NEW s \in Nat \ {0}
  PROVE  (a \div s) * s \in 0..a
OBVIOUS

LEMMA ExpiryBounds ==
  ASSUME now \in 0..MaxTime, NEW ttl \in {AccessTTL, RefreshTTL}
  PROVE  ExpiryOf(ttl) \in 0..(MaxTime + RefreshTTL + AccessTTL)
<1>1. /\ Second \in Nat \ {0} /\ AccessTTL \in Nat /\ RefreshTTL \in Nat
      /\ MaxTime \in Nat /\ now \in Nat /\ ttl \in Nat
  BY SessionAssumption
<1>2. now + ttl \in Nat /\ now + ttl <= MaxTime + RefreshTTL + AccessTTL
  BY <1>1
<1>3. ((now + ttl) \div Second) * Second \in 0..(now + ttl)
  BY <1>1, <1>2, WholeSecondsBounds
<1> QED
  BY <1>1, <1>2, <1>3 DEF ExpiryOf

-----------------------------------------------------------------------------
USE DEF Idle, Token

\* A new pair: issued tokens keep their type and their expiry.
LEMMA GenerateIssues ==
  ASSUME IInv, Generate
  PROVE  /\ issued' \in [Tokens -> [type : {"none", "access", "refresh"},
                                   expiry : 0..(MaxTime + RefreshTTL + AccessTTL)]]
         /\ \A t \in Tokens \ Unissued : issued'[t] = issued[t]
         /\ Tokens \ Unissued \subseteq Tokens \ Unissued'
<1>1. PICK a, b \in Unissued :
        /\ a # b
        /\ issued' = [issued EXCEPT ![a] = Token("access", ExpiryOf(AccessTTL)),
                                    ![b] = Token("refresh", ExpiryOf(RefreshTTL))]
  BY DEF Generate
<1>2. \A ttl \in {AccessTTL, RefreshTTL} :
        ExpiryOf(ttl) \in 0..(MaxTime + RefreshTTL + AccessTTL)
  BY ExpiryBounds DEF IInv, TypeOK
<1> QED
  BY <1>1, <1>2 DEF Unissued, IInv, TypeOK

\* A new access token: the same.
LEMMA AccessIssues ==
  ASSUME IInv, NEW a \in Unissued,
         issued' = [issued EXCEPT ![a] = Token("access", ExpiryOf(AccessTTL))]
  PROVE  /\ issued' \in [Tokens -> [type : {"none", "access", "refresh"},
                                   expiry : 0..(MaxTime + RefreshTTL + AccessTTL)]]
         /\ \A t \in Tokens \ Unissued : issued'[t] = issued[t]
         /\ Tokens \ Unissued \subseteq Tokens \ Unissued'
<1>1. ExpiryOf(AccessTTL) \in 0..(MaxTime + RefreshTTL + AccessTTL)
  BY ExpiryBounds DEF IInv, TypeOK
<1> QED
  BY <1>1 DEF Unissued, IInv, TypeOK

\* The invariant holds initially.
LEMMA InitIInv == Init => IInv
  BY SessionAssumption
     DEF Init, IInv, TypeOK, EntriesOutlive, RevokedIsStored, CallsAreSound,
         RotatedIsRevoked, Unissued, Expiry, Places, Ops, Rotations

\* Time passes: the expiry of an entry and of a token do not move.
LEMMA TickIInv == IInv /\ Tick => IInv'
  BY SessionAssumption
     DEF Tick, IInv, TypeOK, EntriesOutlive, RevokedIsStored, CallsAreSound,
         RotatedIsRevoked, Unissued, Expiry, Places, Ops, Rotations

LEMMA LoginIInv == IInv /\ Login => IInv'
<1> SUFFICES ASSUME IInv, Login PROVE IInv'
  OBVIOUS
<1>1. /\ issued' \in [Tokens -> [type : {"none", "access", "refresh"},
                                expiry : 0..(MaxTime + RefreshTTL + AccessTTL)]]
      /\ \A t \in Tokens \ Unissued : issued'[t] = issued[t]
      /\ Tokens \ Unissued \subseteq Tokens \ Unissued'
  BY GenerateIssues DEF Login
<1> QED
  BY <1>1
     DEF Login, IInv, TypeOK, EntriesOutlive, RevokedIsStored, CallsAreSound,
         RotatedIsRevoked, Unissued, Expiry

LEMMA BeginIInv ==
  ASSUME IInv, NEW r \in Requests, NEW op \in Ops, NEW t \in Tokens, Begin(r, op, t)
  PROVE  IInv'
<1>1. TypeOK'
  BY DEF Begin, IInv, TypeOK, Unissued, Places
<1>2. CallsAreSound'
  BY DEF Begin, IInv, TypeOK, CallsAreSound, Unissued, Expiry
<1> QED
  BY <1>1, <1>2
     DEF Begin, IInv, EntriesOutlive, RevokedIsStored, RotatedIsRevoked, Unissued, Expiry

\* What follows a revocation that has succeeded.
LEMMA RevokedTypes ==
  ASSUME TypeOK, CallsAreSound, NEW r \in Requests, g[r].at # "idle",
         Revoked(r, g[r].token)
  PROVE  /\ g' \in [Requests -> [at : Places, op : Ops, token : Tokens \cup {Nobody},
                                 ttl : Nat, late : BOOLEAN]]
         /\ revoked' = revoked \cup {g[r].token}
         /\ revoked' \subseteq Tokens \ Unissued
         /\ \A q \in Requests : q # r => g'[q] = g[q]
         /\ g'[r].at # "idle" =>
              /\ g'[r].at = "sign"
              /\ g'[r].op = g[r].op
              /\ g'[r].token = g[r].token
         /\ g'[r].late => g'[r].op \in Rotations
<1> USE DEF TypeOK, CallsAreSound
<1>1. CASE g[r].op = "revoke"
  <2>1. g' = [g EXCEPT ![r] = Idle] /\ revoked' = revoked \cup {g[r].token}
    BY <1>1 DEF Revoked, Return
  <2>2. Idle \in [at : Places, op : Ops, token : Tokens \cup {Nobody}, ttl : Nat,
                  late : BOOLEAN]
    BY DEF Places, Ops
  <2> QED
    BY <2>1, <2>2
<1>2. CASE g[r].op # "revoke"
  <2>1. /\ g' = [g EXCEPT ![r].at = "sign", ![r].ttl = 0]
        /\ revoked' = revoked \cup {g[r].token}
    BY <1>2 DEF Revoked
  <2> QED
    BY <2>1 DEF Places
<1> QED
  BY <1>1, <1>2

\* A token that has expired is revoked without an entry; any other is about to be
\* stored for the rest of its life.
LEMMA RevokeIInv ==
  ASSUME IInv, NEW r \in Requests, Revoke(r)
  PROVE  IInv'
<1> DEFINE t == g[r].token
<1>1. /\ g[r].at = "revoke"
      /\ UNCHANGED <<now, issued, cache, rotated, reused>>
      /\ t \in Tokens \ Unissued
  BY DEF Revoke, IInv, CallsAreSound
<1>2. CASE Expiry(t) <= now
  <2>1. Revoked(r, t)
    BY <1>2 DEF Revoke
  <2>2. /\ revoked' = revoked \cup {t}
        /\ TypeOK' /\ CallsAreSound'
    BY <1>1, <2>1, RevokedTypes DEF IInv, TypeOK, CallsAreSound, Unissued, Expiry
  <2> QED
    BY <1>1, <1>2, <2>2
       DEF IInv, TypeOK, EntriesOutlive, RevokedIsStored, RotatedIsRevoked, Unissued, Expiry
<1>3. CASE ~(Expiry(t) <= now)
  <2>1. /\ g' = [g EXCEPT ![r].at = "set", ![r].ttl = Expiry(t) - now]
        /\ UNCHANGED revoked
    BY <1>3 DEF Revoke
  <2>2. /\ Expiry(t) \in Nat /\ now \in Nat
        /\ Expiry(t) - now \in Nat
        /\ Expiry(t) <= now + (Expiry(t) - now)
    BY <1>1, <1>3 DEF IInv, TypeOK, Expiry
  <2>3. TypeOK' /\ CallsAreSound'
    BY <1>1, <2>1, <2>2 DEF IInv, TypeOK, CallsAreSound, Unissued, Expiry, Places
  <2> QED
    BY <1>1, <2>1, <2>3
       DEF IInv, EntriesOutlive, RevokedIsStored, RotatedIsRevoked, Unissued, Expiry
<1> QED
  BY <1>2, <1>3

\* The entry covers its token because the time to live was computed before.
LEMMA SetIInv ==
  ASSUME IInv, NEW r \in Requests, Set(r)
  PROVE  IInv'
<1> DEFINE t == g[r].token
<1>1. /\ g[r].at = "set"
      /\ UNCHANGED <<now, issued, rotated, reused>>
      /\ t \in Tokens \ Unissued
      /\ Expiry(t) <= now + g[r].ttl
      /\ now + g[r].ttl \in Nat
  BY DEF Set, IInv, CallsAreSound, TypeOK
<1>2. CASE /\ cache' = [cache EXCEPT ![t] = {now + g[r].ttl}]
           /\ Revoked(r, t)
  <2>1. /\ revoked' = revoked \cup {t}
        /\ TypeOK' /\ CallsAreSound'
    BY <1>1, <1>2, RevokedTypes DEF IInv, TypeOK, CallsAreSound, Unissued, Expiry
  <2>2. /\ cache'[t] = {now + g[r].ttl}
        /\ \A x \in Tokens : x # t => cache'[x] = cache[x]
    BY <1>1, <1>2 DEF IInv, TypeOK
  <2> QED
    BY <1>1, <2>1, <2>2
       DEF IInv, TypeOK, EntriesOutlive, RevokedIsStored, RotatedIsRevoked, Unissued, Expiry
<1>3. CASE Return(r) /\ UNCHANGED <<cache, revoked>>
  BY <1>1, <1>3
     DEF Return, IInv, TypeOK, EntriesOutlive, RevokedIsStored, CallsAreSound,
         RotatedIsRevoked, Unissued, Expiry, Places, Ops
<1> QED
  BY <1>2, <1>3 DEF Set

\* A request that is admitted goes to a handler, and when that signs it is no rotation.
LEMMA AdmitTypes ==
  ASSUME TypeOK, CallsAreSound, NEW r \in Requests, Admit(r)
  PROVE  /\ g' \in [Requests -> [at : Places, op : Ops, token : Tokens \cup {Nobody},
                                 ttl : Nat, late : BOOLEAN]]
         /\ \A q \in Requests : q # r => g'[q] = g[q]
         /\ g'[r].at \in {"serve", "sign"} /\ g'[r].token = g[r].token
         /\ g'[r].at = "sign" => g'[r].op \notin Rotations
         /\ g'[r].late => g'[r].op \in Rotations
<1>. DEFINE place == IF g[r].op = "refresh" THEN "sign" ELSE "serve"
<1>1. g' = [g EXCEPT ![r].at = place] /\ place \in Places
  BY DEF Admit, Goto, Places
<1>2. place \in {"serve", "sign"} /\ (place = "sign" => g[r].op = "refresh")
  OBVIOUS
<1> HIDE DEF place
<1> QED
  BY <1>1, <1>2 DEF TypeOK, CallsAreSound, Rotations

\* An entry that is found expired is that of an expired token.
LEMMA CheckIInv ==
  ASSUME IInv, NEW r \in Requests, Check(r)
  PROVE  IInv'
<1>1. /\ g[r].at = "check"
      /\ g[r].token \in Tokens \ Unissued
      /\ UNCHANGED <<now, issued, cache, revoked, rotated, reused>>
  BY DEF Check, IInv, CallsAreSound
<1>2. CASE Return(r)
  BY <1>1, <1>2
     DEF Return, IInv, TypeOK, EntriesOutlive, RevokedIsStored, CallsAreSound,
         RotatedIsRevoked, Unissued, Expiry, Places, Ops
<1>3. CASE Admit(r)
  BY <1>1, <1>3, AdmitTypes
     DEF IInv, TypeOK, EntriesOutlive, RevokedIsStored, CallsAreSound, RotatedIsRevoked,
         Unissued, Expiry
<1>4. CASE (\E e \in cache[g[r].token] : now > e) /\ Goto(r, "drop")
  <2>1. Expiry(g[r].token) < now
    BY <1>1, <1>4 DEF IInv, TypeOK, EntriesOutlive, Unissued, Expiry
  <2> QED
    BY <1>1, <1>4, <2>1
       DEF Goto, IInv, TypeOK, EntriesOutlive, RevokedIsStored, CallsAreSound,
           RotatedIsRevoked, Unissued, Expiry, Places
<1> QED
  BY <1>2, <1>3, <1>4 DEF Check

\* Whatever entry it deletes, the token has expired.
LEMMA DropIInv ==
  ASSUME IInv, NEW r \in Requests, Drop(r)
  PROVE  IInv'
<1>1. /\ g[r].at = "drop"
      /\ g[r].token \in Tokens \ Unissued
      /\ Expiry(g[r].token) < now
      /\ cache' = [cache EXCEPT ![g[r].token] = {}]
      /\ Admit(r)
      /\ UNCHANGED <<now, issued, revoked, rotated, reused>>
  BY DEF Drop, IInv, CallsAreSound
<1>2. TypeOK' /\ CallsAreSound'
  BY <1>1, AdmitTypes DEF IInv, TypeOK, CallsAreSound, Unissued, Expiry
<1>3. EntriesOutlive' /\ RevokedIsStored'
  BY <1>1 DEF IInv, TypeOK, EntriesOutlive, RevokedIsStored, Unissued, Expiry
<1> QED
  BY <1>1, <1>2, <1>3 DEF IInv, RotatedIsRevoked

\* The handler of the application returns.
LEMMA ServeIInv ==
  ASSUME IInv, NEW r \in Requests, Serve(r)
  PROVE  IInv'
BY DEF Serve, Return, IInv, TypeOK, EntriesOutlive, RevokedIsStored, CallsAreSound,
       RotatedIsRevoked, Unissued, Expiry, Places, Ops

\* A rotation that signs has revoked its token.
LEMMA SignIInv ==
  ASSUME IInv, NEW r \in Requests, Sign(r)
  PROVE  IInv'
<1> DEFINE t == g[r].token
<1>1. /\ g[r].at = "sign"
      /\ t \in Tokens \ Unissued
      /\ Return(r)
      /\ UNCHANGED <<now, cache, revoked>>
  BY DEF Sign, IInv, CallsAreSound
<1>2. /\ issued' \in [Tokens -> [type : {"none", "access", "refresh"},
                                expiry : 0..(MaxTime + RefreshTTL + AccessTTL)]]
      /\ \A x \in Tokens \ Unissued : issued'[x] = issued[x]
      /\ Tokens \ Unissued \subseteq Tokens \ Unissued'
  <2>1. CASE UNCHANGED issued
    BY <2>1 DEF IInv, TypeOK, Unissued
  <2>2. CASE Generate
    BY <2>2, GenerateIssues
  <2>3. CASE \E a \in Unissued :
               issued' = [issued EXCEPT ![a] = Token("access", ExpiryOf(AccessTTL))]
    BY <2>3, AccessIssues
  <2> QED
    BY <2>1, <2>2, <2>3 DEF Sign
<1>3. /\ rotated' \in {rotated, rotated \cup {t}}
      /\ rotated' # rotated => g[r].op \in Rotations
      /\ reused' \subseteq rotated'
  <2>1. CASE UNCHANGED <<rotated, reused>>
    BY <2>1 DEF IInv, TypeOK
  <2>2. CASE /\ rotated' = IF g[r].op \in Rotations THEN rotated \cup {t} ELSE rotated
             /\ reused' = IF g[r].late THEN reused \cup {t} ELSE reused
    <3>1. /\ reused \subseteq rotated
          /\ g[r].late => g[r].op \in Rotations
      BY DEF IInv, TypeOK, CallsAreSound
    <3> QED
      BY <2>2, <3>1
  <2> QED
    BY <2>1, <2>2 DEF Sign
<1>4. rotated' \subseteq revoked
  BY <1>1, <1>3 DEF IInv, CallsAreSound, RotatedIsRevoked
<1>5. TypeOK' /\ CallsAreSound'
  BY <1>1, <1>2, <1>3, <1>4
     DEF Return, IInv, TypeOK, CallsAreSound, Unissued, Expiry, Places, Ops
<1> QED
  BY <1>1, <1>2, <1>4, <1>5
     DEF IInv, TypeOK, EntriesOutlive, RevokedIsStored, RotatedIsRevoked, Unissued, Expiry

\* Every step keeps the invariant.
LEMMA StepIInv == IInv /\ [Next]_vars => IInv'
<1>1. ASSUME IInv, Next PROVE IInv'
  BY <1>1, TickIInv, LoginIInv, BeginIInv, RevokeIInv, SetIInv, CheckIInv, DropIInv,
     ServeIInv, SignIInv DEF Next, Step
<1>2. ASSUME IInv, UNCHANGED vars PROVE IInv'
  BY <1>2
     DEF vars, IInv, TypeOK, EntriesOutlive, RevokedIsStored, CallsAreSound,
         RotatedIsRevoked, Unissued, Expiry
<1> QED
  BY <1>1, <1>2

LEMMA Invariance == Spec => []IInv
  BY InitIInv, StepIInv, PTL DEF Spec

\* Type correctness of the tokens, the store and the calls in progress.
THEOREM TypeCorrect == Spec => []TypeOK
<1>1. IInv => TypeOK
  BY DEF IInv
<1> QED
  BY <1>1, Invariance, PTL

\* RevocationOutlivesToken: however Set is delayed behind time.Until and whatever Get
\* deletes, a revocation stays until its token expires.
THEOREM RevocationLasts == Spec => []RevocationOutlivesToken
<1>1. IInv => RevocationOutlivesToken
  <2> SUFFICES ASSUME IInv, NEW t \in revoked, now < Expiry(t)
               PROVE  \E e \in cache[t] : now <= e
    BY DEF RevocationOutlivesToken
  <2>1. t \in Tokens /\ Expiry(t) \in Nat /\ now \in Nat /\ cache[t] \subseteq Nat
    BY DEF IInv, TypeOK, Expiry
  <2>2. PICK e \in cache[t] : Expiry(t) <= e
    BY <2>1 DEF IInv, RevokedIsStored, EntriesOutlive
  <2> QED
    BY <2>1, <2>2
<1> QED
  BY <1>1, Invariance, PTL

\* A step of one call changes the place of no other.
LEMMA OthersStay ==
  ASSUME IInv, NEW q \in Requests, Step(q), NEW r \in Requests, r # q
  PROVE  g'[r] = g[r]
BY DEF Step, Revoke, Set, Check, Drop, Serve, Sign, Revoked, Admit, Goto, Return, IInv, TypeOK

\* Only Check and Drop bring a request to its handler.
LEMMA AdmittedBy ==
  ASSUME IInv, Next, NEW r \in Requests,
         g[r].at \in {"check", "drop"}, g'[r].at \in {"serve", "sign"}
  PROVE  Check(r) \/ Drop(r)
<1>1. CASE Tick \/ Login
  BY <1>1 DEF Tick, Login
<1>2. ASSUME NEW q \in Requests, NEW op \in Ops, NEW t \in Tokens, Begin(q, op, t)
      PROVE  FALSE
  BY <1>2 DEF Begin, IInv, TypeOK
<1>3. ASSUME NEW q \in Requests, Step(q) PROVE Check(r) \/ Drop(r)
  <2>1. q = r
    BY <1>3, OthersStay
  <2> QED
    BY <1>3, <2>1 DEF Step, Revoke, Set, Serve, Sign
<1> QED
  BY <1>1, <1>2, <1>3 DEF Next

\* RotatedIsRefused: a rotation has revoked its token before it signs, the entry outlives the
\* token, and so IsRevoked finds it; an entry that is dropped is that of an expired token.
THEOREM RotatedIsAlwaysRefused == Spec => RotatedIsRefused
<1> DEFINE Refused ==
      \A r \in Requests :
        LET t == g[r].token IN
        /\ g[r].at \in {"check", "drop"} /\ g'[r].at \in {"serve", "sign"}
        /\ now < Expiry(t)
        => t \notin rotated
<1>1. ASSUME IInv, Next PROVE Refused
  <2> SUFFICES ASSUME NEW r \in Requests, NEW t, t = g[r].token,
                      g[r].at \in {"check", "drop"}, g'[r].at \in {"serve", "sign"},
                      now < Expiry(t), t \in rotated
               PROVE  FALSE
    OBVIOUS
  <2>1. t \in Tokens /\ Expiry(t) \in Nat /\ now \in Nat /\ cache[t] \subseteq Nat
    BY <1>1 DEF IInv, TypeOK, CallsAreSound, Expiry
  <2>2. cache[t] # {} /\ \A e \in cache[t] : ~(now > e)
    BY <1>1, <2>1 DEF IInv, RotatedIsRevoked, RevokedIsStored, EntriesOutlive
  <2>3. CASE Check(r)
    <3>1. Return(r) \/ Goto(r, "drop")
      BY <2>2, <2>3 DEF Check
    <3> QED
      BY <1>1, <3>1 DEF Return, Goto, IInv, TypeOK
  <2>4. CASE Drop(r)
    BY <1>1, <2>1, <2>4 DEF Drop, IInv, CallsAreSound
  <2> QED
    BY <1>1, <2>3, <2>4, AdmittedBy
<1>2. IInv /\ [Next]_vars => [Refused]_vars
  BY <1>1
<1> QED
  BY <1>2, Invariance, PTL DEF Spec, RotatedIsRefused
=============================================================================
