----------------------------- MODULE MCServices -----------------------------
(* Components that share nothing, checked in one run: a behaviour is one   *)
(* of the Ethereal feed, of the Ethereal archive, of a log stream, of the  *)
(* live channels, of a reconciliation or of the portfolio circuit breaker. *)
EXTENDS EtherealFeed, EtherealArchive, LogStream, Channels, Reconciliation, PortfolioRisk

CONSTANTS
  btc, eth,
  j1, j2, t1, jobs, trading, r1,  \* two clients of one channel, one of another; a request
  p1, p2, p3                      \* positions, two of one symbol

VARIABLE part

MCTopics  == {<<"BTCUSD", "book">>, <<"ETHUSD", "price">>}
MCBars    == <<"BTCUSD-1h">>
MCFunding == <<"BTCUSD-funding">>

MCChannelOf == j1 :> jobs @@ j2 :> jobs @@ t1 :> trading
MCToChannel == r1 :> jobs

MCSymbolOf == p1 :> btc @@ p2 :> btc @@ p3 :> eth
MCNoIds    == << >>

MCInstruments == {btc, eth}
MCEquities    == {0, 80, 100}
MCNotionals   == {0, 24, 28, 30}

ServicesInit ==
  /\ part \in {"feed", "archive", "log", "channels", "recon", "portfolio"}
  /\ FeedInit /\ ArchiveInit /\ StreamInit /\ ChannelsInit /\ ReconInit
  /\ Init /\ (part # "portfolio" => equity = 100)

ServicesNext ==
  /\ UNCHANGED part
  /\ \/ part = "feed"      /\ FeedNext     /\ UNCHANGED <<avars, lvars, cvars, rvars, vars>>
     \/ part = "archive"   /\ ArchiveNext  /\ UNCHANGED <<fvars, lvars, cvars, rvars, vars>>
     \/ part = "log"       /\ StreamNext   /\ UNCHANGED <<fvars, avars, cvars, rvars, vars>>
     \/ part = "channels"  /\ ChannelsNext /\ UNCHANGED <<fvars, avars, lvars, rvars, vars>>
     \/ part = "recon"     /\ ReconNext    /\ UNCHANGED <<fvars, avars, lvars, cvars, vars>>
     \/ part = "portfolio" /\ Next         /\ UNCHANGED <<fvars, avars, lvars, cvars, rvars>>

ServicesSpec ==
  ServicesInit /\ [][ServicesNext]_<<part, fvars, avars, lvars, cvars, rvars, vars>> /\ FeedFairness

\* The runs of the repository: no event of theirs names a position.
RunsSpec ==
  ServicesInit /\ part = "recon" /\ [][ServicesNext]_<<part, fvars, avars, lvars, cvars, rvars, vars>>

=============================================================================
