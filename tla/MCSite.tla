------------------------------- MODULE MCSite -------------------------------
(* A small instance of Site: two archives that share an index, one of which *)
(* has it twice; the other has a file two directories deep, whose parent    *)
(* can only be made once the first has made the directory above.            *)
EXTENDS Site

File(path, blocks) == [kind |-> "file", path |-> path, blocks |-> blocks]

TwoArchives ==
    [d1 |-> <<File(<<"index">>, <<"a1", "a2">>),
              File(<<"x", "page">>, <<>>),
              File(<<"index">>, <<"a4">>)>>,
     d2 |-> <<File(<<"index">>, <<"b1">>),
              [kind |-> "corrupt", path |-> <<"p">>, blocks |-> <<"b2">>],
              File(<<"x", "y", "deep">>, <<>>)>>]

OnlyIndex == {<<"index">>}
=============================================================================
