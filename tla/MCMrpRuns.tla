----------------------------- MODULE MCMrpRuns -----------------------------
(***************************************************************************)
(* Small instances of MrpRuns for TLC: a hull of two parts, a part of one   *)
(* unit of ore.                                                            *)
(***************************************************************************)
EXTENDS MrpRuns

CONSTANTS hull, part, ore, beat, hand, ann
Chain == {hull, part, ore}
ChainLevel == [t \in Chain |-> CASE t = hull -> 0 [] t = part -> 1 [] OTHER -> 2]
ChainUses == [t \in Chain |-> [u \in Chain |->
    CASE <<t, u>> = <<hull, part>> -> 2 [] <<t, u>> = <<part, ore>> -> 1 [] OTHER -> 0]]
=============================================================================
