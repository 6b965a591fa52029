----------------------------- MODULE CudaNonces -----------------------------
(***************************************************************************)
(* How CUDAMiner::search walks through the nonces.  A nonce keeps its      *)
(* layout, <<high, 4 device bits, 36 low bits>>, and its wrap-around; the  *)
(* fields have High, Devs and Low values here.                             *)
(***************************************************************************)
EXTENDS Integers

CONSTANTS
    Batch,          \* s_gridSize * s_blockSize
    Word,           \* 2^32, the range of uint32_t
    Low,            \* 2^36, the values below the device bits
    Devs,           \* 2^4, the values of the device bits
    High            \* 2^24, the values above the device bits

Space == Low * Devs * High      \* 2^64

ASSUME NonceAssumption ==
    /\ Batch \in Nat \ {0} /\ Word \in 1 .. Space /\ Low \in Nat \ {0}
    /\ Devs \in Nat \ {0} /\ High \in Nat \ {0} /\ Space \in Nat \ {0}

\* const uint32_t max_nonce = 0xEFFFFFFFF: 15/16 of the low range, truncated.
max_nonce == ((15 * Low) \div 16 - 1) % Word

\* The next batch: step, wrap in the low range, put the device bits in.
NextNonce(n, m_device_num) ==
    LET stepped == (n + Batch) % Space
        wrapped == IF stepped % Low > max_nonce THEN 0 ELSE stepped
    IN  (wrapped \div (Low * Devs)) * (Low * Devs)
            + (m_device_num % Devs) * Low + (wrapped % Low)
=============================================================================
