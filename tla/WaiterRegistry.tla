--------------------------- MODULE WaiterRegistry ---------------------------
(***************************************************************************)
(* The in-memory rendezvous between a payment confirmation that waits for  *)
(* its result and the webhook that brings it: class WaiterRegistry of      *)
(* services/order/crud/payment_v2_crud.py.  Every method of the class runs *)
(* under one asyncio.Lock on one event loop and awaits nothing while it    *)
(* holds it, so that each method is one step.                              *)
(*                                                                         *)
(* A key is the tx_id of one confirmation.  A confirmation subscribes at   *)
(* most once and its tx_id carries fresh random bits, so that the list of  *)
(* waiters of a key is the membership of the key in the set `waiters', and *)
(* the one future of the list is future[k].  A token is `secrets.token_    *)
(* urlsafe' of one key: holding a token is knowing the key it was made     *)
(* for, and callback_tokens is the set of the keys that have one.          *)
(***************************************************************************)

CONSTANTS
    Keys,      \* the tx_ids
    Payloads   \* the results a webhook may bring

VARIABLES
    waiters,   \* the keys with an entry in WaiterRegistry.waiters
    future,    \* the asyncio.Future of a key's subscriber
    resolved,  \* WaiterRegistry.resolved, "none" where it has no entry
    tokens     \* the keys with an entry in WaiterRegistry.callback_tokens

registryVars == <<waiters, future, resolved, tokens>>

(***************************************************************************)
(* "none": nobody subscribed; "pending": not done; "cancelled": wait_for   *)
(* gave up; "timeout": cleanup completed it with asyncio.TimeoutError; a   *)
(* payload: completed with that result.                                    *)
(***************************************************************************)
FutureStates == {"none", "pending", "cancelled", "timeout"} \cup Payloads

RegistryTypeOK ==
    /\ waiters \in SUBSET Keys
    /\ future \in [Keys -> FutureStates]
    /\ resolved \in [Keys -> Payloads \cup {"none"}]
    /\ tokens \in SUBSET Keys

\* A new process starts with an empty registry.
RegistryInit ==
    /\ waiters = {}
    /\ future = [k \in Keys |-> "none"]
    /\ resolved = [k \in Keys |-> "none"]
    /\ tokens = {}

\* Mutant: subscribe without check_resolved_first.
SubscribeUnchecked(k) ==
    /\ future' = [future EXCEPT ![k] = "pending"]
    /\ waiters' = waiters \cup {k}
    /\ UNCHANGED <<resolved, tokens>>

(***************************************************************************)
(* subscribe(key, check_resolved_first=True): a result that came first     *)
(* completes the future at once, otherwise the future joins the waiters.   *)
(***************************************************************************)
Subscribe(k) ==
    /\ \/ /\ resolved[k] # "none"
          /\ future' = [future EXCEPT ![k] = resolved[k]]
          /\ UNCHANGED waiters
       \/ /\ resolved[k] = "none"
          /\ future' = [future EXCEPT ![k] = "pending"]
          /\ waiters' = waiters \cup {k}
    /\ UNCHANGED <<resolved, tokens>>

RegisterCallbackToken(k) ==
    /\ tokens' = tokens \cup {k}
    /\ UNCHANGED <<waiters, future, resolved>>

\* verify_callback_token reads the token and leaves it where it is.
VerifyCallbackToken(k) == k \in tokens

DiscardCallbackToken(k) ==
    /\ tokens' = tokens \ {k}
    /\ UNCHANGED <<waiters, future, resolved>>

\* The futures that a result or a cleanup completes: those not done yet.
Complete(ks, result) ==
    [k \in Keys |-> IF k \in ks /\ future[k] = "pending" THEN result ELSE future[k]]

\* Mutant: resolve forgets to retire the token.
ResolveKeepingToken(k, payload) ==
    /\ resolved' = [resolved EXCEPT ![k] = payload]
    /\ future' = Complete({k} \cap waiters, payload)
    /\ waiters' = waiters \ {k}
    /\ UNCHANGED tokens

\* Mutant: resolve stores the result and wakes nobody.
ResolveSilently(k, payload) ==
    /\ resolved' = [resolved EXCEPT ![k] = payload]
    /\ tokens' = tokens \ {k}
    /\ UNCHANGED <<waiters, future>>

(***************************************************************************)
(* resolve(key, payload): store the result, retire the token, and wake the *)
(* subscribers that are still listed.                                      *)
(***************************************************************************)
Resolve(k, payload) ==
    /\ resolved' = [resolved EXCEPT ![k] = payload]
    /\ tokens' = tokens \ {k}
    /\ future' = Complete({k} \cap waiters, payload)
    /\ waiters' = waiters \ {k}

(***************************************************************************)
(* asyncio.wait_for gives up on a future that is not done, and cleanup     *)
(* follows with no await between them; oldWaiters and oldTokens are the    *)
(* entries older than its max_age_sec.  The entry of k itself stays in the *)
(* list, with a future that is done.  Results are never cleaned up.        *)
(***************************************************************************)
GiveUpAndCleanup(k, oldWaiters, oldTokens) ==
    /\ future[k] = "pending"
    /\ future' = [Complete(waiters \cap oldWaiters, "timeout") EXCEPT ![k] = "cancelled"]
    /\ waiters' = waiters \ oldWaiters
    /\ tokens' = tokens \ oldTokens
    /\ UNCHANGED resolved

=============================================================================
