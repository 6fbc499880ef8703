-------------------------- MODULE MCHttpConnection --------------------------
(* Small instances of HttpConnection.                                      *)
EXTENDS HttpConnection

Request(head, framing, chunks, keep, fault) ==
    [head |-> head, framing |-> framing, chunks |-> chunks, keep |-> keep, fault |-> fault,
     spoilt |-> 0]

Get      == Request(2, "none", <<>>, TRUE, "none")
LastGet  == Request(1, "none", <<>>, FALSE, "none")
Post     == Request(2, "length", <<3>>, TRUE, "none")
Chunks   == Request(1, "chunked", <<1, 2>>, TRUE, "none")
BigHead  == Request(4, "none", <<>>, TRUE, "none")
BigPost  == Request(1, "length", <<4>>, TRUE, "none")
BigChunk == Request(1, "chunked", <<4>>, TRUE, "none")
\* Within the body limit, but its framing takes it past MaxBuffer: dropped unanswered.
TinyChunks == Request(1, "chunked", <<1, 1, 1>>, TRUE, "none")
BadHead  == Request(1, "none", <<>>, TRUE, "400")
Gzip     == Request(2, "chunked", <<1>>, TRUE, "501")
\* A malformed size line behind a good chunk.
BadChunk == [Chunks EXCEPT !.spoilt = 2]

\* Requests pipelined in the orders that exercise the leftovers, and one of each
\* kind the parser refuses, behind a good one.
MCScripts ==
    {<<Get, Post, LastGet>>, <<Post, Chunks, Get>>, <<Get, BigHead>>, <<Get, BigPost>>,
     <<Chunks, BigChunk>>, <<TinyChunks>>, <<BadHead>>, <<Get, Gzip>>,
     <<Get, BadChunk>>}
PostOnly == {<<Post>>}
GetOnly == {<<LastGet>>}
=============================================================================
