--------------------------- MODULE MCOrchestrator ---------------------------
(* Small instances of Orchestrator for TLC.                                 *)
EXTENDS Orchestrator, TLC

Request(rivals, plannable, refused) ==
    [rivals |-> rivals, plannable |-> plannable, refused |-> refused]

(* A plain audit, one with a competitor, one that cannot be planned, and    *)
(* one refused in the middle, right after a skip or not.                    *)
AuditInputs ==
    {Request(0, TRUE, {}), Request(1, TRUE, {}), Request(0, FALSE, {}),
     Request(0, TRUE, {"link_analysis"})}

RivalInputs == {Request(0, TRUE, {}), Request(1, TRUE, {}), Request(2, TRUE, {})}
LiveInputs == {Request(1, TRUE, {}), Request(0, TRUE, {"link_analysis"})}
PlainInputs == {Request(0, TRUE, {}), Request(0, TRUE, {"keyword_research"})}

InstanceSymmetry == Permutations(Instances)
=============================================================================
