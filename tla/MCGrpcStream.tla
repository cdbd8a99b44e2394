------------------------------ MODULE MCGrpcStream ------------------------------
EXTENDS GrpcStream

=============================================================================
