---------------------------- MODULE MCCloudWsClient ----------------------------
(* CloudWsClient with one or two callers, two URLs and a queue of two.        *)
EXTENDS CloudWsClient
=============================================================================
