------------------------------ MODULE MCRender ------------------------------
(* The instance of Render that TLC checks.                                 *)
EXTENDS RenderProperties

(* Two frames of three days at a daily step: the steps are spread over the *)
(* range, and the last moment of the range is not beyond its end.          *)
RequestSet == {[frames |-> 2, days |-> 2, freq |-> "1d"]}
=============================================================================
