---------------------------- MODULE SessionTokens ----------------------------
(***************************************************************************)
(* Tokens and their revocation (security/session): the JWT and the PASETO  *)
(* manager, which have the same calls, over a store of revocations in the  *)
(* memory of the process.  A token carries its expiry in whole seconds; an *)
(* entry of the store expires at an instant.  Goroutines rotate, revoke    *)
(* and present tokens; each access of the store is a step, and so is       *)
(* signing.                                                                *)
(***************************************************************************)
EXTENDS Naturals

CONSTANTS
  Requests,    \* goroutines
  Tokens,      \* identifiers (jti), never used twice
  Nobody,      \* no token
  Second,      \* instants in a second
  AccessTTL, RefreshTTL,  \* config
  WholeSeconds,  \* Verify compares seconds (PASETO) or instants (JWT)
  MaxTime      \* bound on the time

ASSUME SessionAssumption ==
  /\ Nobody \notin Tokens
  /\ {Second, AccessTTL, RefreshTTL} \subseteq Nat \ {0}
  /\ WholeSeconds \in BOOLEAN
  /\ MaxTime \in Nat

VARIABLES
  now,
  issued,   \* token -> its type, "none" before it is issued, and its expiry
  cache,    \* token -> the instants at which its entry of the store expires
  g,        \* the place and the local variables of each goroutine
  \* History.
  revoked,  \* tokens whose revocation has succeeded
  rotated,  \* tokens in exchange for which a rotation has signed new ones
  reused    \* tokens rotated by a call that began when they were revoked

vars == <<now, issued, cache, g, revoked, rotated, reused>>

Rotations == {"rotateRefresh", "rotateAccess"}
Ops == Rotations \cup {"revoke", "access", "refresh"}

Places == {"idle", "revoke", "set", "check", "drop", "serve", "sign"}

Idle == [at |-> "idle", op |-> "revoke", token |-> Nobody, ttl |-> 0, late |-> FALSE]

Goto(r, place) == g' = [g EXCEPT ![r].at = place]
Return(r) == g' = [g EXCEPT ![r] = Idle]

Token(type, expiry) == [type |-> type, expiry |-> expiry]

Unissued == {t \in Tokens : issued[t].type = "none"}

Expiry(t) == issued[t].expiry

\* Mutant: the expiry is written in another unit than that of whole seconds.
ExpiryInUnits(ttl) == (now + ttl) * Second

\* exp.Unix(): the last whole second before now + ttl.
ExpiryOf(ttl) == ((now + ttl) \div Second) * Second

\* What Verify makes of the expiry of an issued token.
Unexpired(t) == IF WholeSeconds THEN now \div Second <= Expiry(t) \div Second
                ELSE now < Expiry(t)

Init ==
  /\ now = 0
  /\ issued = [t \in Tokens |-> Token("none", 0)]
  /\ cache = [t \in Tokens |-> {}]
  /\ g = [r \in Requests |-> Idle]
  /\ revoked = {}
  /\ rotated = {}
  /\ reused = {}

-----------------------------------------------------------------------------
\* Generate: a pair of tokens.
Generate ==
  \E a, b \in Unissued :
    /\ a # b
    /\ issued' = [issued EXCEPT ![a] = Token("access", ExpiryOf(AccessTTL)),
                                ![b] = Token("refresh", ExpiryOf(RefreshTTL))]

\* A user logs in: the application generates a pair.
Login == Generate /\ UNCHANGED <<now, cache, g, revoked, rotated, reused>>

\* The type a call expects of its token.
Accepts(op, type) ==
  CASE op \in {"rotateRefresh", "refresh"} -> type = "refresh"
    [] op \in {"rotateAccess", "access"} -> type = "access"
    [] op = "revoke" -> TRUE

\* A call whose token passes Validate; the middlewares look at the store next, the
\* others go on to revoke.
Begin(r, op, t) ==
  /\ g[r].at = "idle"
  /\ t \notin Unissued
  /\ Accepts(op, issued[t].type)
  /\ Unexpired(t)
  /\ g' = [g EXCEPT ![r] =
             [Idle EXCEPT !.at = IF op \in {"access", "refresh"} THEN "check" ELSE "revoke",
                          !.op = op, !.token = t,
                          !.late = op \in Rotations /\ t \in revoked]]
  /\ UNCHANGED <<now, issued, cache, revoked, rotated, reused>>

-----------------------------------------------------------------------------
(* RevokeClaims and the store, which each manager is made with.  (With     *)
(* SetRevocationStore(nil) there is no revocation: RevokeClaims succeeds   *)
(* without a call and every token is admitted.)                            *)

\* What follows a revocation.
Revoked(r, t) ==
  /\ revoked' = revoked \cup {t}
  /\ IF g[r].op = "revoke" THEN Return(r)
     ELSE g' = [g EXCEPT ![r].at = "sign", ![r].ttl = 0]

\* Mutant: a rotation signs and leaves the old token alone.
RevokeSkipped(r) ==
  LET t == g[r].token IN
  /\ g[r].at = "revoke"
  /\ IF g[r].op # "revoke" THEN Goto(r, "sign") /\ UNCHANGED revoked
     ELSE IF Expiry(t) <= now THEN Revoked(r, t)
     ELSE /\ g' = [g EXCEPT ![r].at = "set", ![r].ttl = Expiry(t) - now]
          /\ UNCHANGED revoked
  /\ UNCHANGED <<now, issued, cache, rotated, reused>>

\* time.Until: a token that has expired needs no entry.
Revoke(r) ==
  LET t == g[r].token IN
  /\ g[r].at = "revoke"
  /\ IF Expiry(t) <= now THEN Revoked(r, t)
     ELSE /\ g' = [g EXCEPT ![r].at = "set", ![r].ttl = Expiry(t) - now]
          /\ UNCHANGED revoked
  /\ UNCHANGED <<now, issued, cache, rotated, reused>>

\* Mutant: the entry expires a second early.
SetShort(r) ==
  LET t == g[r].token IN
  /\ g[r].at = "set"
  /\ \/ /\ cache' = [cache EXCEPT ![t] = {now + g[r].ttl - Second}]
        /\ Revoked(r, t)
     \/ Return(r) /\ UNCHANGED <<cache, revoked>>
  /\ UNCHANGED <<now, issued, rotated, reused>>

\* Set, of the map in memory or of a cache that may fail.
Set(r) ==
  LET t == g[r].token IN
  /\ g[r].at = "set"
  /\ \/ /\ cache' = [cache EXCEPT ![t] = {now + g[r].ttl}]
        /\ Revoked(r, t)
     \/ Return(r) /\ UNCHANGED <<cache, revoked>>
  /\ UNCHANGED <<now, issued, rotated, reused>>

\* A request whose token is not revoked goes to its handler: that of the refresh
\* route generates a pair.
Admit(r) == Goto(r, IF g[r].op = "refresh" THEN "sign" ELSE "serve")

\* IsRevoked.  An expired entry is deleted in a section of its own.
Check(r) ==
  LET entry == cache[g[r].token] IN
  /\ g[r].at = "check"
  /\ \/ Return(r)                                     \* refused, or an error
     \/ entry = {} /\ Admit(r)
     \/ (\E e \in entry : now > e) /\ Goto(r, "drop")
  /\ UNCHANGED <<now, issued, cache, revoked, rotated, reused>>

Drop(r) ==
  /\ g[r].at = "drop"
  /\ cache' = [cache EXCEPT ![g[r].token] = {}]
  /\ Admit(r)
  /\ UNCHANGED <<now, issued, revoked, rotated, reused>>

\* The handler of a route behind the access middleware.
Serve(r) ==
  /\ g[r].at = "serve"
  /\ Return(r)
  /\ UNCHANGED <<now, issued, cache, revoked, rotated, reused>>

-----------------------------------------------------------------------------
\* The end of a rotation and of the refresh route.  The route has not revoked the
\* token: its pair comes in addition to it.  An error of the signer ends the call.
Sign(r) ==
  LET t == g[r].token
      rotation == g[r].op \in Rotations
  IN
  /\ g[r].at = "sign"
  /\ \/ UNCHANGED <<issued, rotated, reused>>
     \/ /\ \/ g[r].op \in {"rotateRefresh", "refresh"} /\ Generate
           \/ /\ g[r].op = "rotateAccess"
              /\ \E a \in Unissued :
                   issued' = [issued EXCEPT ![a] = Token("access", ExpiryOf(AccessTTL))]
        /\ rotated' = IF rotation THEN rotated \cup {t} ELSE rotated
        /\ reused' = IF g[r].late THEN reused \cup {t} ELSE reused
  /\ Return(r)
  /\ UNCHANGED <<now, cache, revoked>>

Tick ==
  /\ now < MaxTime
  /\ now' = now + 1
  /\ UNCHANGED <<issued, cache, g, revoked, rotated, reused>>

Step(r) == Revoke(r) \/ Set(r) \/ Check(r) \/ Drop(r) \/ Serve(r) \/ Sign(r)

Next ==
  \/ Tick
  \/ Login
  \/ \E r \in Requests :
       \/ \E op \in Ops, t \in Tokens : Begin(r, op, t)
       \/ Step(r)

Spec == Init /\ [][Next]_vars

-----------------------------------------------------------------------------
(* Properties.                                                             *)

\* Type correctness.
TypeOK ==
  /\ now \in 0..MaxTime
  /\ issued \in [Tokens -> [type : {"none", "access", "refresh"},
                          expiry : 0..(MaxTime + RefreshTTL + AccessTTL)]]
  /\ cache \in [Tokens -> SUBSET Nat]
  /\ g \in [Requests -> [at : Places, op : Ops, token : Tokens \cup {Nobody},
                         ttl : Nat, late : BOOLEAN]]
  /\ revoked \subseteq Tokens \ Unissued
  /\ rotated \subseteq Tokens
  /\ reused \subseteq rotated

\* Until the instant its token names as the expiry, a revocation is in the store:
\* no delay of Set, no second revocation and no request that deletes an expired
\* entry between two steps can make it disappear sooner.
RevocationOutlivesToken ==
  \A t \in revoked : now < Expiry(t) => \E e \in cache[t] : now <= e

\* Once a rotation has handed out new tokens the middlewares admit no request with the old
\* one, until the instant that it names as its expiry; what PASETO accepts of the second
\* behind that instant is not covered, and the rotations themselves do not ask the store
\* (RotatedIsInvalid).
RotatedIsRefused ==
  [][\A r \in Requests :
       LET t == g[r].token IN
       /\ g[r].at \in {"check", "drop"} /\ g'[r].at \in {"serve", "sign"}
       /\ now < Expiry(t)
       => t \notin rotated]_vars

\* What rotation has invalidated is invalid: a call of RotateRefresh or RotateAccess
\* that begins after the revocation of its token yields no tokens.
RotatedIsInvalid == reused = {}
=============================================================================
