------------------------------- MODULE MCVfs --------------------------------
(***************************************************************************)
(* Five workloads: names and links on a tree of four i-nodes with indexed  *)
(* directories; names and attributes with and without them; two open files *)
(* on a disk of three blocks of two bytes; two devices with two mount      *)
(* points; and the devices of /dev.                                        *)
(***************************************************************************)
EXTENDS Vfs

MCWorkloads ==
  {[calls |-> {"names", "link", "unlink"}, links |-> {<<"b">>}, index |-> {TRUE},
    paths |-> {<<"a">>, <<"b">>, <<"a", "b">>, <<"a", "b", "a">>}],
   [calls |-> {"names", "link", "unlink", "attr"}, links |-> {}, index |-> BOOLEAN,
    paths |-> {<<"a">>, <<"b">>}],
   [calls |-> {"io", "unlink"}, links |-> {}, index |-> {FALSE},
    paths |-> {<<"a">>, <<"b">>}],
   [calls |-> {"mount", "chdir"}, links |-> {}, index |-> {FALSE},
    paths |-> {<<>>, <<"a">>, <<"a", "b">>, <<"b">>}],
   [calls |-> {"dev"}, links |-> {}, index |-> {FALSE}, paths |-> {}]}
Sound == [valid |-> TRUE, csum |-> TRUE, fits |-> TRUE, rev0 |-> FALSE,
          incompat |-> FALSE, rocompat |-> FALSE]
MCSbs == {Sound, [Sound EXCEPT !.rocompat = TRUE], [Sound EXCEPT !.incompat = TRUE],
          [Sound EXCEPT !.csum = FALSE], [Sound EXCEPT !.rev0 = TRUE]}
MCCwdPaths == {<<"/">>, <<"/", "a">>, <<"/", "a", "/", "b">>}
MCMountDirs == {Slash, [p |-> <<"a">>, s |-> TRUE], [p |-> <<"b">>, s |-> FALSE]}
MCOpenFlags == {{}, {"RDWR", "CREAT", "TRUNC"}, {"RDWR", "CREAT", "APPEND"}}
MCBlkNames == <<"sda">>
MCDevPaths == {<<"dev">>, <<"dev", "stdout">>, <<"dev", "stderr">>, <<"dev", "sda">>,
               <<"dev", "sdz">>}
MCDevFlags == {{}, {"RDWR"}, {"RDWR", "CREAT"}}
MCTexts == {<<FALSE>>, <<FALSE, TRUE>>, <<FALSE, FALSE, FALSE>>}
Handles == Permutations(Hs)
=============================================================================
