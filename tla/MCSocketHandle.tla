--------------------------- MODULE MCSocketHandle ---------------------------
EXTENDS SocketHandle
=============================================================================
