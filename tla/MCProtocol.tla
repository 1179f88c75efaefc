----------------------------- MODULE MCProtocol -----------------------------
(***************************************************************************)
(* Scripts for TLC.  Arguments of 3 bytes and more are big, a line of more *)
(* than 6 bytes is too long.                                               *)
(***************************************************************************)
EXTENDS Protocol

Set == Multi(<<<<1>>, <<>>>>)
Get == Inline(<<<<2, 2>>, <<3>>>>)

MCScripts == {
  \* arguments that look like protocol, and are empty
  <<Multi(<<<<CR, LF>>, <<Dollar>>>>), Multi(<<<<Star>>, <<>>>>)>>,
  \* big arguments, the last one, and followed by another
  <<Multi(<<<<1, 1, 1, 1>>>>), Multi(<<<<1, CR, LF, 1, 1>>, <<2>>>>)>>,
  <<Multi(<<<<1>>, <<2, LF, CR>>, <<3, 3>>, <<4, 4, 4, 4>>>>), Get>>,
  \* requests of both kinds, and empty ones
  <<Get, Ignored(<<CR, LF>>), Set, Ignored(<<Star, 0, CR, LF>>), Get>>,
  <<Ignored(<<Star, -1, CR, LF>>), Ignored(<<Space, Space, CR, LF>>), Get, Set>>,
  \* nothing is executed after QUIT, even if the client goes on for ever
  <<Set, Quit, Get, Get, Set>>,
  <<Inline(<<<<1>>>>), [Inline(<<QuitName>>) EXCEPT !.stops = TRUE], Get, Set, Set>>,
  \* malformed requests
  <<Get, Malformed(<<Star, CR, LF>>, 3, 3), Get>>,
  <<Set, Malformed(<<Star, 9, CR, LF>>, 4, 4), Get>>,
  <<Malformed(<<Star, 1, CR, LF, 5, 5, CR, LF>>, 8, 8), Get>>,
  <<Malformed(<<Star, 2, CR, LF, Dollar, 1, CR, LF, 1, CR, LF, Dollar, -1, CR, LF>>, 15, 15), Get>>,
  <<Malformed(<<Quote, 1, CR, LF>>, 4, 4), Set>>,
  \* lines without end
  <<Malformed(<<1, 1, 1, 1, 1, 1, 1, 1, 1, 1>>, 7, 9)>>,
  <<Malformed(<<Star, 1, 1, 1, 1, 1, 1, 1, 1, 1>>, 7, 9)>>,
  <<Malformed(<<Star, 1, CR, LF, Dollar, 1, 1, 1, 1, 1, 1, 1, 1, 1>>, 5, 13)>>
}

\* A line that ends with LF alone.
MCBareScripts == {<<Sent(<<1, LF>>, <<<<1>>>>), Get>>}
=============================================================================
