--------------------------- MODULE MCReplication ----------------------------
(* A finite instance of Replication.                                       *)
EXTENDS Replication

CONSTANTS v1, v2, v3

\* A volume with a Metro and an asynchronous session, one volume group, and
\* more sessions than two pages hold.
SessionVolumes == <<v1, NotVolume, v2, v1, v3>>

ASSUME SeveralPages == Cardinality(Id) > 2 * PageSize
ASSUME MoreItemsThanPlaces == Cardinality(Volume) > Limit
=============================================================================
