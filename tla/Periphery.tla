------------------------------ MODULE Periphery -----------------------------
(***************************************************************************)
(* The parts around the turn: the decoders of byte streams, the detection  *)
(* of agents, and the presentation to the users.  They share no state and  *)
(* none waits for another, so each behaviour watches one of them, while    *)
(* the others rest.                                                        *)
(***************************************************************************)
EXTENDS Decoding, Detection, Presentation

peripheryVars == <<decodingVars, detectionVars, presentationVars>>

PeripheryInit ==
    \/ InitDecoding /\ NoDetection   /\ NoPresentation
    \/ NoDecoding   /\ InitDetection /\ NoPresentation
    \/ NoDecoding   /\ NoDetection   /\ InitPresentation

PeripheryNext ==
    \/ NextDecoding     /\ UNCHANGED <<detectionVars, presentationVars>>
    \/ NextDetection    /\ UNCHANGED <<decodingVars, presentationVars>>
    \/ NextPresentation /\ UNCHANGED <<decodingVars, detectionVars>>

PeripherySpec == PeripheryInit /\ [][PeripheryNext]_peripheryVars
=============================================================================
