----------------------------- MODULE MCOpenClaw -----------------------------
(* A small instance of OpenClaw of its own.                                *)
EXTENDS OpenClaw

CONSTANT c1
=============================================================================
