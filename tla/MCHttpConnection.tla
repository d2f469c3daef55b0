--------------------------- MODULE MCHttpConnection ---------------------------
(* A finite instance of HttpConnection for TLC. *)
EXTENDS HttpConnection

\* Well-formed requests without a body: one that is small, one that ends within a
\* read of the limit of 6, one that ends beyond it and one that is never ended.
Plain == {[head |-> h, size |-> s, malformed |-> FALSE, first |-> 0, last |-> 0] :
            h \in {3, 6, 7, 20}, s \in {6, 13}}

\* Small headers, with every pair of readings of a length about the limit of 3, from
\* a client that writes less than that, as much, and more.
WithBody == {[head |-> 3, size |-> 6, malformed |-> FALSE, first |-> f, last |-> l] :
               f \in {0, 2, 3, 4, Unreadable}, l \in {0, 2, 3, 4, Unreadable}}

Odd == {[head |-> 3, size |-> 5, malformed |-> m, first |-> 3, last |-> 3] :
          m \in BOOLEAN}

MCRequests == Plain \cup WithBody \cup Odd
==============================================================================
