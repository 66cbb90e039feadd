------------------------------- MODULE Block -------------------------------
(***************************************************************************)
(* Headers and blocks, src/c4_client/p1_data_structure.rs.                 *)
(***************************************************************************)
EXTENDS Hashing, Integers, SequencesExt

CONSTANTS NextOf(_, _),     \* StateMachine::next_state
          DefaultDigest     \* Digest::default()

Header(parent, height, stateRoot, extrinsicsRoot, digest) ==
    [parent |-> parent, height |-> height, state_root |-> stateRoot,
     extrinsics_root |-> extrinsicsRoot, consensus_digest |-> digest]

Genesis(genesisState) ==
    [header |-> Header(ZeroHash, 0, HashState(genesisState), HashBody(<<>>), DefaultDigest),
     body |-> <<>>]

\* The state after a body's transitions, from the first to the last.
Execute(state, body) == FoldLeft(NextOf, state, body)

\* Block::child and, for the header, Header::child.
Child(b, preState, extrinsics) ==
    [header |-> Header(HashHeader(b.header), b.header.height + 1,
                       HashState(Execute(preState, extrinsics)),
                       HashBody(extrinsics), DefaultDigest),
     body |-> extrinsics]

\* Header::verify_child.
VerifyChild(header, child) ==
    /\ child.parent = HashHeader(header)
    /\ child.height = header.height + 1

\* Header::verify_sub_chain, on the headers of the blocks of `chain`.
VerifyHeaders(header, chain) ==
    \A i \in DOMAIN chain :
        VerifyChild(IF i = 1 THEN header ELSE chain[i - 1].header, chain[i].header)

\* The state after the first i blocks of the chain.
StateAfter(preState, chain, i) ==
    LET after[k \in 0..i] ==
            IF k = 0 THEN preState ELSE Execute(after[k - 1], chain[k].body)
    IN after[i]

\* Block::verify_sub_chain.
VerifySubChain(b, preState, chain) ==
    /\ \A i \in DOMAIN chain :
          /\ chain[i].header.state_root = HashState(StateAfter(preState, chain, i))
          /\ chain[i].header.extrinsics_root = HashBody(chain[i].body)
    /\ VerifyHeaders(b.header, chain)

\* create_empty_chain: all but the first block are children of genesis.
CreateEmptyChain(n, genesisState) ==
    LET g == Genesis(genesisState)
    IN [i \in 1..IF n > 1 THEN n ELSE 1 |->
          IF i = 1 THEN g ELSE Child(g, genesisState, <<>>)]
=============================================================================
