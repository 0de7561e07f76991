--------------------------- MODULE MCMessageFraming ---------------------------
(* Small instances of MessageFraming for TLC. *)
EXTENDS MessageFraming, SequencesExt

\* A header of 3, the size in its first 2; messages of at most 6 unless that is 0.
Net(chunk_size, message_max_size) ==
    [chunk_size |-> chunk_size, header_size |-> 3, size_needed |-> 2,
     message_max_size |-> message_max_size]

\* The stream of messages of these sizes, of which those in bad begin badly.
StreamOf(sizes, bad) ==
    [i \in DOMAIN sizes |-> [end |-> FoldLeft(+, 0, SubSeq(sizes, 1, i)), bad |-> i \in bad]]

Setup(net, stream, early) ==
    [chunk_size |-> net.chunk_size, header_size |-> net.header_size,
     size_needed |-> net.size_needed, message_max_size |-> net.message_max_size,
     stream |-> stream, early |-> early]

\* Every stream of three messages: only a header, of the maximal size, too big,
\* with or without a bad start; without a maximum; and chunks.
MCWhole ==
    {Setup(Net(0, 6), StreamOf(sizes, bad), 0) :
        sizes \in [1 .. 3 -> {3, 6, 7}], bad \in {{}, {1}, {2}, {3}}}
    \cup {Setup(Net(0, 0), StreamOf(sizes, bad), 0) :
            sizes \in [1 .. 3 -> {3, 5}], bad \in {{}, {3}}}
    \cup {Setup(Net(2, 0), StreamOf(<<2, 2, 2>>, {}), 0)}

\* Bytes that came with the proxy's last reply.
MCEarly == {Setup(Net(0, 6), StreamOf(<<4, 3>>, {}), early) : early \in 0 .. 7}

MCSetups == MCWhole \cup MCEarly
=============================================================================
