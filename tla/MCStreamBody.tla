--------------------------- MODULE MCStreamBody ---------------------------
(***************************************************************************)
(* TLC instance of StreamBody: two responses of one code object.  The two  *)
(* chunks of a overflow a channel of one and a fairness burst of one; the  *)
(* one of b decides the verdict and takes the loop in between.             *)
(***************************************************************************)
EXTENDS StreamBody, TLC

CONSTANTS a, b

MCStreams == {a, b}

MCMaxChunks == a :> 2 @@ b :> 1

(* Two plain streams share nothing.                                        *)
AllKinds  == {[s \in MCStreams |-> "await"], (a :> "plain" @@ b :> "await")}
=============================================================================
