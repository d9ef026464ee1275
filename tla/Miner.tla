------------------------------- MODULE Miner -------------------------------
(***************************************************************************)
(* The crypto miner of hw4 (src/crypto_miner.c): workers that search the   *)
(* nonces of one block, each from the start of its own variant of the      *)
(* problem, until one has a digest with enough leading zeros.              *)
(*                                                                         *)
(* A nonce is a sequence of bytes, the least significant first.  The hash  *)
(* is external: `zeros' gives the leading zero bits of every digest.  What *)
(* the master makes of the results is in module Polya.                     *)
(***************************************************************************)
EXTENDS Integers, Sequences

CONSTANTS
  Base,      \* values of a byte, 256 in the code
  NSize,     \* bytes of a nonce
  Workers,   \* how many workers, the nvars of the problem
  Diff,      \* the difficulty
  Digests    \* the functions from nonces to leading zeros to be tried

ASSUME MinerAssumption ==
  Base \in Nat \ {0} /\ NSize \in Nat \ {0} /\ Workers \in Nat \ {0}

VARIABLES
  zeros,     \* what the hash makes of each nonce
  at,        \* each worker: "idle", "solving", "found", "exhausted", "canceled"
  nonce,     \* the nonce of its present or last attempt
  canceled   \* the flag canceledp

minerVars == <<zeros, at, nonce, canceled>>

Vars == 0 .. Workers - 1
Nonces == [1 .. NSize -> 0 .. Base - 1]

\* crypto_miner_vary_problem: only the most significant byte tells variants
\* apart.
VaryNonce(var) == [i \in 1 .. NSize |-> IF i = NSize THEN ((var * Base) \div Workers) % Base ELSE 0]

\* check_result counts diff down while the bits are zero; difficulty 0 would
\* wrap round and is not satisfied.
Satisfied(n) == Diff # 0 /\ zeros[n] >= Diff

\* The byte at which the carry ends: the first that is not full, or NSize + 1.
CarryEnds(n) ==
  CHOOSE i \in 1 .. NSize + 1 :
    /\ i <= NSize => n[i] # Base - 1
    /\ \A j \in 1 .. i - 1 : n[j] = Base - 1

\* Mutant: the nonces end when the carry reaches the last byte.
UpdateNonceShort(n) ==
  LET i == CarryEnds(n)
  IN [more |-> i < NSize,
      nonce |-> [k \in 1 .. NSize |-> CASE k < i -> 0 [] k = i -> (n[k] + 1) % Base [] k > i -> n[k]]]

\* update_nonce: the counter after n, and whether it is one.
UpdateNonce(n) ==
  LET i == CarryEnds(n)
  IN [more |-> i <= NSize,
      nonce |-> [k \in 1 .. NSize |-> CASE k < i -> 0 [] k = i -> n[k] + 1 [] k > i -> n[k]]]

-----------------------------------------------------------------------------
MinerInit ==
  /\ zeros \in Digests
  /\ at = [w \in Vars |-> "idle"]
  /\ nonce = [w \in Vars |-> VaryNonce(0)]
  /\ canceled = [w \in Vars |-> FALSE]

\* The worker gets its variant, for the first time or again.
Start(w) ==
  /\ at[w] \in {"idle", "exhausted", "canceled"}
  /\ at' = [at EXCEPT ![w] = "solving"]
  /\ nonce' = [nonce EXCEPT ![w] = VaryNonce(w)]
  /\ canceled' = [canceled EXCEPT ![w] = FALSE]
  /\ UNCHANGED zeros

\* SIGHUP, by which the master cancels the attempt.
Sighup(w) ==
  /\ at[w] = "solving"
  /\ canceled' = [canceled EXCEPT ![w] = TRUE]
  /\ UNCHANGED <<zeros, at, nonce>>

\* One turn of the loop of solve; a nonce that fits is returned even when the
\* flag has been set since it was tested.
Hash(w) ==
  LET u == UpdateNonce(nonce[w])
  IN /\ at[w] = "solving" /\ ~canceled[w]
     /\ IF Satisfied(nonce[w])
        THEN at' = [at EXCEPT ![w] = "found"] /\ UNCHANGED nonce
        ELSE /\ nonce' = [nonce EXCEPT ![w] = u.nonce]
             /\ at' = IF u.more THEN at ELSE [at EXCEPT ![w] = "exhausted"]
     /\ UNCHANGED <<zeros, canceled>>

GiveUp(w) ==
  /\ at[w] = "solving" /\ canceled[w]
  /\ at' = [at EXCEPT ![w] = "canceled"]
  /\ UNCHANGED <<zeros, nonce, canceled>>

MinerNext == \E w \in Vars : Start(w) \/ Sighup(w) \/ Hash(w) \/ GiveUp(w)

MinerSpec == MinerInit /\ [][MinerNext]_minerVars

-----------------------------------------------------------------------------
\* Nonces in the order of the numbers they stand for: the most significant
\* byte that differs decides.
Precedes(m, n) ==
  \E k \in 1 .. NSize : m[k] < n[k] /\ \A j \in k + 1 .. NSize : m[j] = n[j]

\* A worker skips no nonce between its start and the one it tries, whatever
\* the carries, and does not go round to those before its start: what it finds
\* is a solution, and when the nonces are exhausted none was left, for the
\* first worker none at all (crypto_miner.c:250-251, 323-341).
NoNonceIsSkipped ==
  \A w \in Vars :
    LET later == {n \in Nonces : ~Precedes(n, VaryNonce(w))}
    IN /\ at[w] = "solving" => /\ nonce[w] \in later
                               /\ \A n \in later : Precedes(n, nonce[w]) => ~Satisfied(n)
       /\ at[w] = "found" => Satisfied(nonce[w])
       /\ at[w] = "exhausted" => \A n \in later : ~Satisfied(n)
=============================================================================
