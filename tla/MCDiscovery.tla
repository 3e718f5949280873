---------------------------- MODULE MCDiscovery ----------------------------
(* A behaviour is one of the discovery pipeline, which takes chromosomes   *)
(* as they come, or one of the breeding it leaves open.                    *)
EXTENDS Discovery, Breeding

VARIABLE part

\* Long genomes score their number, short ones 0; 3 is far from 1 and 2.
MCScore == [c \in Chrom |-> IF c.d = "long" THEN c.g ELSE 0]
MCNear  == {<<c, e>> \in Chrom \X Chrom : c.d = e.d /\ (c.g = 3 <=> e.g = 3)}
MCSeeds == <<[g |-> 1, d |-> "short"], [g |-> 2, d |-> "short"]>>

\* RSI draws its threshold, MACD its slow period, which starts where the fast one
\* ends; ADX is an indicator the pool of the run leaves out, in a seed.
MCParamRanges == [RSI |-> [period |-> <<1, 1>>], MACD |-> [fast |-> <<2, 2>>, slow |-> <<2, 3>>],
                  ADX |-> [period |-> <<1, 2>>], KAMA |-> [period |-> <<1, 1>>]]
MCThresholdRanges == [RSI |-> <<1, 2>>, MACD |-> <<0, 0>>, ADX |-> <<3, 3>>, KAMA |-> <<0, 0>>]
MCStopRanges == [sl |-> <<1, 2>>]
MCMinGenes == [entry |-> 1, exit |-> 1, ma_entry |-> 0, ma_exit |-> 0]
MCMaxGenes == [entry |-> 2, exit |-> 1, ma_entry |-> 1, ma_exit |-> 0]
MCDrawnGenes == [MCMaxGenes EXCEPT !.entry = 1]
MCFirsts ==
    LET Gene(i, p, t) == [ind |-> i, params |-> p, thr |-> t]
        Rsi(t) == Gene("RSI", [period |-> 1], t)
        With(e, m, s) == [genes |-> [entry |-> <<e>>, exit |-> <<Rsi(s)>>, ma_entry |-> m, ma_exit |-> <<>>],
                          stops |-> [sl |-> s], dir |-> "long"]
    IN {<<With(Gene("ADX", [period |-> 1], 3), <<>>, 1),
          With(Gene("MACD", [fast |-> 2, slow |-> 3], 0), <<Gene("KAMA", [period |-> 1], 0)>>, 2)>>}

\* The part that stands still has one initial state.
MCInit ==
    /\ Init /\ BreedInit
    /\ \/ part = "pipeline" /\ ~crowding /\ elites = 0
       \/ /\ part = "breeding"
          /\ conf = [crowding |-> FALSE, mode |-> "sequential"]
          /\ pop = CHOOSE p \in InitialPopulations : TRUE
MCNext == \/ part = "pipeline" /\ Next /\ UNCHANGED <<part, gvars>>
          \/ part = "breeding" /\ BreedNext /\ UNCHANGED <<part, vars>>
MCSpec == MCInit /\ [][MCNext]_<<part, vars, gvars>> /\ WF_vars(part = "pipeline" /\ Next)

\* RunEnds for the behaviours of the pipeline: the run ends, whatever breaks in the
\* pool of processes (pipeline.py:577).
PipelineEnds == part = "pipeline" => RunEnds
=============================================================================
