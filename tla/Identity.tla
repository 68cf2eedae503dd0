------------------------------ MODULE Identity ------------------------------
(* Names.  Embedded Cluster names an operation; the executor normalizes the  *)
(* operation ID (uuid.Parse accepts upper case, braces and a urn: prefix,    *)
(* String prints one form) and uses the result as the recovery point ID, from *)
(* which the bucket keys and the names of all Velero resources derive.  Two   *)
(* operation IDs that the server keeps apart may therefore name one point.    *)
CONSTANTS
    Ops,                     \* operation IDs as Embedded Cluster writes them
    Points,                  \* normalized operation IDs
    normalizeOperationID     \* [Ops -> Points]

ASSUME NormalizeAssumption == normalizeOperationID \in [Ops -> Points]
=============================================================================
