--------------------------- MODULE MCServerStream ---------------------------
(* Model-checking instance of ServerStream: the SourceFrame blocks are         *)
(* interchangeable.                                                            *)
EXTENDS ServerStream, TLC

CONSTANTS f1, f2, f3

TwoFrames   == {f1, f2}
ThreeFrames == {f1, f2, f3}
FrameSymmetry == Permutations(TwoFrames)
=============================================================================
