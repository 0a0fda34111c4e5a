-------------------------- MODULE MC_TcpConnection --------------------------
\* Every kind of packet in three sizes through a connection that holds, and a few
\* through one that breaks.
EXTENDS TcpConnection

\* The i-th field of a packet of size v: empty and zero, small and different from
\* its neighbours, or as large as it can be.
SampleOf(f, i, v) ==
    CASE f.kind = "number" ->
            (CASE v = 0 -> 0 [] v = 1 -> i [] v = 2 -> Base ^ (IF f.width = 8 THEN 6 ELSE f.width) - 1)
      [] f.kind = "signed" ->
            (CASE v = 0 -> 0 [] v = 1 -> -i [] v = 2 -> Base ^ f.width \div 2 - 1)
      [] f.kind = "flag" -> v = 2 \/ (v = 1 /\ i % 2 = 0)
      [] f.kind = "text" -> (CASE v = 0 -> <<>> [] v = 1 -> <<i>> [] v = 2 -> <<Base - 1, 0>>)

SampleEntry(layout, v) ==
    [n \in { layout[i].name : i \in DOMAIN layout } |->
        LET i == CHOOSE j \in DOMAIN layout : layout[j].name = n IN SampleOf(layout[i], i, v)]

SampleFields(layout, v) ==
    [n \in { layout[i].name : i \in DOMAIN layout } |->
        LET i == CHOOSE j \in DOMAIN layout : layout[j].name = n
            f == layout[i]
        IN  IF f.kind # "list" THEN SampleOf(f, i, v)
            ELSE CASE v = 0 -> <<>>
                   [] v = 1 -> <<SampleEntry(f.entry, 1)>>
                   [] v = 2 -> <<SampleEntry(f.entry, 2), SampleEntry(f.entry, 1)>>]

Packet(space, kind, v) ==
    [kind |-> kind, fields |-> SampleFields(Writes(space)[kind], v), older |-> FALSE,
     tooLong |-> FALSE]

OlderPacket(kind, v) ==
    [kind |-> kind, fields |-> SampleFields(OlderLayout(Reads("client")[kind]), v), older |-> TRUE,
     tooLong |-> FALSE]

Ping(space) == Packet(space, "Ping", 1)

Talk(space, near, far, version, breakable) ==
    [space |-> space, packets |-> [e \in Ends |-> IF e = "near" THEN near ELSE far],
     version |-> [e \in Ends |-> IF e = "near" THEN 1 ELSE version], breakable |-> breakable]

EveryKind ==
    UNION { { Talk(s, <<Packet(s, k, v), Ping(s)>>, <<>>, 1, FALSE) :
                k \in DOMAIN Writes(s), v \in {0, 1, 2} } : s \in Spaces }

OlderVersions ==
    { Talk("client", <<OlderPacket(k, v), Ping("client")>>, <<>>, 1, FALSE) :
        k \in {"EntitySnapshot", "SessionResumeResponse", "MerchantBuyResult"}, v \in {0, 1, 2} }

\* A line too long for a payload.
LongDialog ==
    [Packet("client", "NpcDialogOpen", 1) EXCEPT
        !.fields.lines = <<[text |-> [i \in 1 .. MaxPayload |-> 1]]>>,
        !.tooLong = TRUE]

Rough ==
    { Talk("client", <<Packet("client", "SessionResume", 1), Ping("client")>>,
           <<Packet("client", "UsePortal", 1), Ping("client")>>, version, version = 1) : version \in {1, 2} }
    \cup { Talk("client", <<LongDialog>>, <<Ping("client"), Ping("client")>>, 1, FALSE) }

AllTalk == EveryKind \cup OlderVersions \cup Rough
=============================================================================
