------------------------------- MODULE MCHls -------------------------------
EXTENDS Hls, TLC

\* Three segments with cached audio, after packets that are passed over.
Long == <<<<"meta", 0>>, <<"end", 0>>, <<"other", 0>>, <<"audio", 0>>, <<"aseq", 0>>, <<"key", 0>>,
          <<"audio", 2>>, <<"key", 2>>, <<"audio", 3>>, <<"audio", 4>>, <<"audio", 4>>, <<"key", 4>>, <<"inter", 6>>, <<"key", 6>>>>
Streams == {Long, <<<<"vseq", 0>>, <<"short", 0>>>>, <<<<"odd", 0>>>>}

\* Requests are made of one publisher's long stream, which is not dropped from;
\* for two publishers, timeouts and drops the streams are short.
IsLong(l) == pub[l].n + Len(pub[l].todo) = Len(Long)
Calm ==
    IF \E l \in Loops : IsLong(l)
    THEN idle = {} /\ pub["l2"].pc = "idle" /\ pub["l1"].pc # "drop"
    ELSE req.pc = "idle" /\ (pub["l1"].pc = "idle" => pub["l2"].pc = "idle")
                          /\ pub["l2"].n + Len(pub["l2"].todo) <= 1

Spec == HlsInit /\ [][HlsNext /\ Calm']_hlsVars /\ HlsFairness
=============================================================================
