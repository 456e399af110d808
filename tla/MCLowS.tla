-------------------------------- MODULE MCLowS --------------------------------
(* Every S of curves of some odd orders; one curve is not recognized.         *)
EXTENDS LowS

CONSTANTS p3, p5, p31, p53, p59

MCCurves == {p3, p5, p31, p53, p59}
MCOrder == [c \in MCCurves |->
              CASE c = p3 -> 3 [] c = p5 -> 5 [] c = p31 -> 31 [] c = p53 -> 53 [] c = p59 -> 59]
MCRecognized == {p3, p5, p31, p53}
==============================================================================
