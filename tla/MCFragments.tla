---------------------------- MODULE MCFragments ----------------------------
(***************************************************************************)
(* Fragments with the code's lengths, for TLC.                              *)
(***************************************************************************)
EXTENDS Fragments, TLC

PaddingBlocks == {256, 512, 1024, 2048}

\* A body of 150 bytes (one block) and one of 300, which is sent in fragments
\* when it is padded; both end in bytes that could be taken for padding.
BodySet == {[len |-> 150, last |-> 1, run |-> 1],
            [len |-> 300, last |-> 212, run |-> 2]}

\* A phone's packet that just fits a ring entry and one that does not.
PhoneFormSet ==
    LET small == [len |-> 300, last |-> 212, run |-> 2]
        large == [len |-> 600, last |-> 7, run |-> 1]
    IN  {[body |-> small, bytes |-> pad_packet(small)], [body |-> large, bytes |-> large]}

\* The code's block sizes fit its MTU.
ASSUME CodePaddingFits == PaddingFits

Symmetry == Permutations(PhonePackets) \cup Permutations(Handles) \cup Permutations(MsgIds)
=============================================================================
