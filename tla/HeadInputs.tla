----------------------------- MODULE HeadInputs -----------------------------
(***************************************************************************)
(* Streams for RequestHead: three stretches of text of up to three bytes,  *)
(* each followed by nothing, a CR, an LF or a CRLF, and then what may end  *)
(* a head, with bytes behind it.                                           *)
(***************************************************************************)
EXTENDS Sequences

StreamsOf(cr, lf, x) ==
    LET texts  == {<<>>, <<x>>, <<x, x>>, <<x, x, x>>}
        breaks == {<<>>, <<cr>>, <<lf>>, <<cr, lf>>}
        ends   == {<<>>, <<cr, lf>>, <<cr, lf, x>>, <<cr, lf, cr, lf>>}
    IN {line \o b1 \o h1 \o b2 \o h2 \o b3 \o end :
           line \in texts, h1 \in texts, h2 \in {<<>>, <<x, x>>},
           b1 \in breaks, b2 \in breaks, b3 \in breaks, end \in ends}
=============================================================================
