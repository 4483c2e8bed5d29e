----------------------------- MODULE MCFetchDDF -----------------------------
(***************************************************************************)
(* FetchDDF with a pinned zip of a two-scope area and a provider, a next   *)
(* one that has lost the provider, one put behind the pinned URL, and two  *)
(* that are refused.                                                       *)
(***************************************************************************)
EXTENDS FetchDDF

Entry(parts, area, roots) == [parts |-> parts, area |-> area, roots |-> roots]

MCZips == {"pin", "next", "changed", "clash", "broken"}

MCEntries ==
  [pin     |-> <<Entry(<<"Camera">>, TRUE, <<"Device", "User">>), Entry(<<"LAPS">>, FALSE, <<"Device">>)>>,
   next    |-> <<Entry(<<"Camera">>, TRUE, <<"Device", "User">>)>>,
   changed |-> <<Entry(<<"LAPS">>, FALSE, <<"Device">>)>>,
   clash   |-> <<Entry(<<"LAPS", "User">>, FALSE, <<"Device">>), Entry(<<"LAPS">>, FALSE, <<"Device", "User">>)>>,
   broken  |-> <<Entry(<<"LAPS">>, FALSE, <<>>)>>]

MCUploads == {<<"pinned", "pin">>, <<"pinned", "changed">>, <<"newer", "next">>, <<"newer", "clash">>}

\* The defaults; a look at the page; a zip on the disk, and whatever its digest; a
\* download whatever its digest; and a bump to the next zip, under the label that
\* -discover gives it, with a look at the page.
MCFlags ==
  {Defaults,
   [Defaults EXCEPT !.discover = TRUE],
   [Defaults EXCEPT !.local = TRUE],
   [Defaults EXCEPT !.local = TRUE, !.want = <<>>],
   [Defaults EXCEPT !.want = <<>>],
   [Defaults EXCEPT !.url = "newer", !.release = "newer", !.want = <<"next">>,
                    !.fetched = <<0>>, !.discover = TRUE]}

=============================================================================
