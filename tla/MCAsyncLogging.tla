---------------------------- MODULE MCAsyncLogging ----------------------------
EXTENDS AsyncLogging

(* Two threads, each with a shard of its own.                               *)
MCShardOf == <<1, 2>>

=============================================================================
