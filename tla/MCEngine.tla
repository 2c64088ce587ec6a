------------------------------ MODULE MCEngine ------------------------------
(* Small instances of Engine for TLC. *)
EXTENDS EngineProperties, TLC

CONSTANTS ann, bo, firm, spring, autumn, plan, w1, w2

OneFirm  == [x \in People |-> IF x \in Cold THEN NoAccount ELSE firm]
NoFirm   == [x \in People |-> NoAccount]
Everyone == [c \in Campaigns |-> People]
OnlyBo   == [c \in Campaigns |-> {bo}]
SamePlan == [c \in Campaigns |-> plan]

OneEach  == {<<x, 1>> : x \in People}
AnnTwice == OneEach \cup {<<ann, 2>>}

(* The processes are alike, and so are the two people of one firm. *)
Alike == Permutations(Procs) \cup Permutations(People)

(* The worker's own jobs, and what each instance lets arrive besides. *)
Worker          == {"launch", "advance", "completeCampaign"}
ControlRequests == Worker \cup {"resolve", "reply", "pauseCampaign", "resumeCampaign", "stopCampaign"}
ManyRequests    == RequestNames \ {"hardStop", "endDate"}

ReleaseRequests == {"launch", "enroll", "exit", "pauseCampaign", "resumeCampaign"}
CrashRequests   == Worker \cup {"resolve", "pause", "resume", "optOut", "crash",
                                "stopCampaign", "hardStop", "moveToCrm", "undoMove", "endDate"}
=============================================================================
