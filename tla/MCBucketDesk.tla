---------------------------- MODULE MCBucketDesk ----------------------------
(* One reviewer, two buckets, two administrators who send one set each.     *)
EXTENDS BucketDesk
===========================================================================
