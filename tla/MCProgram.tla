------------------------------ MODULE MCProgram ------------------------------
EXTENDS Program
=============================================================================
