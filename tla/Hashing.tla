------------------------------ MODULE Hashing ------------------------------
(***************************************************************************)
(* `hash` of src/lib.rs: a DefaultHasher over the fields of a value.  It  *)
(* is modelled as free of collisions: a hash is the value itself under a   *)
(* tag, so that equal hashes come from equal values of the same type, and  *)
(* no value has the hash 0 that stands for "no block".                     *)
(***************************************************************************)

HashHeader(h) == <<"header", h>>

\* A Block hashes its header and its body: not what its header hashes to.
HashBlock(b) == <<"block", b>>

HashState(s) == <<"state", s>>

\* A Vec of extrinsics; the empty Vec<u8> of genesis hashes like an empty body.
HashBody(body) == <<"body", body>>

\* Of numbers, and of an array of bytes, which hashes without its length.
HashNumber(n) == <<"number", n>>
HashBytes(bytes) == <<"bytes", bytes>>

ZeroHash == <<"zero">>

\* Option::<u64>::None, which best_block returns when it knows no block.
NoBlock == <<"none">>
=============================================================================
