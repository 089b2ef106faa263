----------------------------- MODULE MCSocInfo -----------------------------
(* The tables as they are, and two IDs they do not have.                   *)
EXTENDS SocInfo

MCUnknownIds == {\h1000, \hFFFF}

=============================================================================
