------------------------------ MODULE KeyVerifier ------------------------------
(***************************************************************************)
(* KeyVerifier (api.rs) for one key: the control plane is asked whether    *)
(* the key is valid, and a yes is cached.  Requests look into the cache,   *)
(* wait for an answer and fill the cache in three separate steps.  The     *)
(* control plane itself is external: all that is used of it is that it     *)
(* tells the truth about the moment it is asked at.                        *)
(***************************************************************************)
EXTENDS Naturals

CONSTANTS Handler,        \* requests in progress at the same time
          CacheTtl,       \* ticks a positive answer is kept (60 s)
          VerifyTimeout,  \* ticks a call to the control plane may take (5 s)
          MaxAge          \* bound: ticks after the revocation that are looked at

ASSUME VerifierAssumption ==
    /\ CacheTtl \in Nat \ {0}
    /\ VerifyTimeout \in Nat
    /\ MaxAge \in Nat

VARIABLES cache,    \* ticks the cached answer has left, 0 for none
          blank,    \* the cached answer names no tenant
          revoked,  \* 0 while the key is valid, then 1 + ticks since
          call,     \* how far verify has come for each request
          waited    \* ticks each call has been under way

verifier == <<cache, blank, revoked, call, waited>>

(* "elsewhere": allowed, but for the namespace of no tenant.               *)
Granted == {"allowed", "elsewhere"}
CallState == {"idle", "asked", "yes", "denied"} \cup Granted
UnderWay(h) == call[h] \in {"asked", "yes"}

VerifierInit ==
    /\ cache = 0
    /\ blank = FALSE
    /\ revoked = 0
    /\ call = [h \in Handler |-> "idle"]
    /\ waited = [h \in Handler |-> 0]

Said(h, state) ==
    /\ call' = [call EXCEPT ![h] = state]
    /\ waited' = [waited EXCEPT ![h] = 0]

(* Mutation of Aged: the expiry of an entry is not looked at.              *)
AgedNever == cache

(* What is left of the cached answer a tick later.                         *)
Aged == IF cache = 0 THEN 0 ELSE cache - 1

(* verify: the answer in the cache, or a call.                             *)
Lookup(h) ==
    /\ call[h] = "idle"
    /\ Said(h, IF cache = 0 THEN "asked" ELSE IF blank THEN "elsewhere" ELSE "allowed")
    /\ UNCHANGED <<cache, blank, revoked>>

(* The control plane looks the key up and answers.                         *)
Answer(h) ==
    /\ call[h] = "asked"
    /\ call' = [call EXCEPT ![h] = IF revoked = 0 THEN "yes" ELSE "denied"]
    /\ UNCHANGED <<cache, blank, revoked, waited>>

(* The answer arrives: a yes is cached from now on, also when its body     *)
(* could not be read and the tenant is left empty.                         *)
Arrive(h, readable) ==
    /\ call[h] = "yes"
    /\ Said(h, IF readable THEN "allowed" ELSE "elsewhere")
    /\ cache' = CacheTtl
    /\ blank' = ~readable
    /\ UNCHANGED revoked

(* The call fails or times out before a status is read: denied, and        *)
(* nothing is cached.                                                      *)
GiveUp(h) ==
    /\ UnderWay(h)
    /\ Said(h, "denied")
    /\ UNCHANGED <<cache, blank, revoked>>

Revoke ==
    /\ revoked = 0
    /\ revoked' = 1
    /\ UNCHANGED <<cache, blank, call, waited>>

(* Time passes; no call is under way for longer than its timeout.          *)
Pass ==
    /\ revoked <= MaxAge
    /\ \A h \in Handler : UnderWay(h) => waited[h] < VerifyTimeout
    /\ cache' = Aged
    /\ blank' = (blank /\ Aged # 0)
    /\ revoked' = IF revoked = 0 THEN 0 ELSE revoked + 1
    /\ waited' = [h \in Handler |-> IF UnderWay(h) THEN waited[h] + 1 ELSE waited[h]]
    /\ UNCHANGED call

(* The handler that asked is through with the answer.                      *)
Release(h) ==
    /\ call[h] \in Granted \cup {"denied"}
    /\ Said(h, "idle")
    /\ UNCHANGED <<cache, blank, revoked>>

VerifierNext ==
    \/ Revoke \/ Pass
    \/ \E h \in Handler :
          \/ Lookup(h) \/ Answer(h) \/ GiveUp(h) \/ Release(h)
          \/ \E readable \in BOOLEAN : Arrive(h, readable)

VerifierSpec == VerifierInit /\ [][VerifierNext]_verifier

-----------------------------------------------------------------------------
(* A request is allowed on the word of an answer that was true at most one *)
(* call and one lifetime of the cache ago: a revoked key is of no use to   *)
(* anyone after that, whatever calls were under way when it was revoked.   *)
RevocationWindow ==
    [][\A h \in Handler :
          call[h] \notin Granted /\ call'[h] \in Granted =>
              revoked <= CacheTtl + VerifyTimeout]_verifier
=============================================================================
