-------------------------------- MODULE MCDt --------------------------------
(* Rules of one or two fields for module DtClassifier.                     *)
EXTENDS DtClassifier

CONSTANTS r1, r2, r3, src, dst

DtMatch ==
  (r1 :> (src :> 1 @@ dst :> ANY)) @@
  (r2 :> (src :> 2 @@ dst :> 1)) @@
  (r3 :> (src :> ANY @@ dst :> 2))
DtPriority == r1 :> 1 @@ r2 :> 2 @@ r3 :> 1
DtFields == <<src, dst>>
DtFlows == {src :> s @@ dst :> d : s, d \in {1, 2}}
=============================================================================
