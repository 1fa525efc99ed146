------------------------------- MODULE MCStrand -------------------------------
(* Two inner workers, two clients and three handlers: two threads can post at *)
(* once, a handler can post to its own strand, and run() can be giving        *)
(* running_ back while the next handler is posted.                            *)
EXTENDS Strand
=============================================================================
