----------------------------- MODULE MCSecurity -----------------------------
(* Instance of Security for TLC. *)
EXTENDS Security

CONSTANTS cli, none, get, success, failed, unread   \* model values

MCCallers == {cli}
MCRequests == Values \union Unwritable \union {get}
MCResults == Values \union {success, failed}
============================================================================
