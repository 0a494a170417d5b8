------------------------------ MODULE MCCodec ------------------------------
(* Small streams for Codec. *)
EXTENDS Codec

F(headers, body) == [command |-> <<"M">>, headers |-> headers, body |-> body]

Plain == F(<<>>, <<>>)
Escapes == F(<<<<<<"k", ":">>, <<"\\", LF, "n">>>>, <<<<"k">>, <<CR>>>>>>, <<"b">>)
Binary == F(<<<<<<"k">>, <<"v">>>>>>, <<NUL, LF, ":">>)
NotText == F(<<>>, [i \in 1..10 |-> "X"])
Told == F(<<<<<<"L">>, <<"2">>>>>>, <<NUL, NUL>>)
Lined == F(<<<<<<"k">>, <<>>>>>>, <<LF, CR, LF, ":">>)
Long == F(<<>>, [i \in 1..24 |-> IF i % 4 = 0 THEN LF ELSE "b"])
LongBinary == F(<<>>, [i \in 1..24 |-> NUL])
Exact == F(<<>>, [i \in 1..19 |-> "b"])

Items == [frame: {Plain, Escapes, Binary, NotText, Told, Lined, Long, LongBinary, Exact},
          eol: {<<LF>>, <<CR, LF>>}, after: {<<>>, <<LF>>, <<CR, LF>>, <<LF, LF>>}]

OneOrTwo == {<<i>> : i \in Items} \cup {<<i, j>> : i, j \in Items}
=============================================================================
