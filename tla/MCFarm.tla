------------------------------- MODULE MCFarm -------------------------------
(* Farm with two CUDA devices and one OpenCL device.                       *)
EXTENDS Farm

TwoAndOne == [s \in {"cuda", "opencl"} |-> IF s = "cuda" THEN 2 ELSE 1]
=============================================================================
