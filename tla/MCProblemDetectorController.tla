--------------------- MODULE MCProblemDetectorController ---------------------
(* Model-checking instance of ProblemDetectorController.                    *)
EXTENDS ProblemDetectorController

=============================================================================
