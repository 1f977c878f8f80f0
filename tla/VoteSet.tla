------------------------------ MODULE VoteSet ------------------------------
(***************************************************************************)
(* The votes of one type and view that a node has collected                *)
(* (types/voteset.go, types/votetesseract.go), as a record:                *)
(*   votes         the vote counted for each validator index               *)
(*   byTS          votesByTesseract: per tesseract hash, its voters        *)
(*   maj23         the hash that first reached the quorum                  *)
(*   maj23VoteSet  the voters of maj23 at that moment                      *)
(*   maj23Sig      the indices whose signatures maj23aggSignature holds    *)
(***************************************************************************)
EXTENDS Committee

CONSTANTS
    Responders,  \* the nodes whose PREPARED message is in the prepare QC (see Prepare)
    Hashes, None

ASSUME VoteSetAssumption ==
    /\ Responders \subseteq {KramaID(i) : i \in Indices}
    /\ None \notin Hashes

\* GetByIndex: a vote is accepted only from a node that took part in the prepare phase.
CanVote(i) == KramaID(i) \in Responders

VoteSets ==
    [votes : [Indices -> Hashes \cup {None}], byTS : [Hashes -> SUBSET Indices],
     maj23 : Hashes \cup {None}, maj23VoteSet : SUBSET Indices, maj23Sig : SUBSET Indices]

NewVoteSet ==
    [votes |-> [i \in Indices |-> None], byTS |-> [h \in Hashes |-> {}],
     maj23 |-> None, maj23VoteSet |-> {}, maj23Sig |-> {}]

\* A bit is set exactly when a vote is stored.
votesBitArray(vs) == {i \in Indices : vs.votes[i] # None}

(***************************************************************************)
(* addVerifiedVote for a single vote.  A validator's second, different     *)
(* vote replaces the stored one only if it is for the majority hash, and   *)
(* is never counted.                                                       *)
(***************************************************************************)
addVerifiedVote(vs, i, h) ==
    LET voters == vs.byTS[h] \cup {i}
        counted == [vs EXCEPT !.votes[i] = h, !.byTS[h] = voters]
    IN  IF vs.votes[i] # None
        THEN [vs EXCEPT !.votes[i] = IF vs.maj23 = h THEN h ELSE @]
        ELSE IF vs.maj23 = None /\ HasQuorum(voters)
             THEN [counted EXCEPT !.maj23 = h, !.maj23VoteSet = voters, !.maj23Sig = voters]
             ELSE counted

\* AddVote reports a vote as added only if the validator had none.
IsNewVote(vs, i) == CanVote(i) /\ vs.votes[i] = None

(***************************************************************************)
(* AddQc adds the signers of a verified certificate one by one, in index   *)
(* order.  The majority is set at the first signer that completes the      *)
(* quorum: its voter set stops there, but its signature is the aggregate   *)
(* of the whole certificate.                                               *)
(***************************************************************************)
AddQc(vs, qc) ==
    LET h == qc.hash
        new == {i \in qc.bits : vs.votes[i] = None}
        upTo(c) == vs.byTS[h] \cup {i \in new : ~Before(c, i)}
        crossings == {c \in new : vs.maj23 = None /\ HasQuorum(upTo(c))}
        first == CHOOSE c \in crossings : \A d \in crossings : ~Before(d, c)
        majorityAt(i) == vs.maj23 = h \/ (crossings # {} /\ Before(first, i))
        counted == [vs EXCEPT
            !.votes = [i \in Indices |->
                IF i \in new \/ (i \in qc.bits /\ majorityAt(i)) THEN h ELSE @[i]],
            !.byTS[h] = @ \cup new]
    IN  IF crossings = {}
        THEN counted
        ELSE [counted EXCEPT !.maj23 = h, !.maj23VoteSet = upTo(first), !.maj23Sig = qc.sig]

\* AddQc rejects a hash against the majority and a signature that is not the signers'.
AcceptsQc(vs, qc) == vs.maj23 \in {None, qc.hash} /\ qc.sig = qc.bits
=============================================================================
