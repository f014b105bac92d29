------------------------------ MODULE RankCache ------------------------------
(***************************************************************************)
(* The Redis keys in which the market worker leaves its last results       *)
(* (storage/rank_cache.py): the sorted set rank:trend:{horizon} and one    *)
(* entry latest:trend:{symbol}:{horizon} per symbol, which no one removes. *)
(* A publication is the session scored and the result of each symbol; what *)
(* a result is, is up to the worker.                                       *)
(***************************************************************************)
EXTENDS Integers

VARIABLES
  rank,    \* the publication the sorted set was made from
  latest,  \* symbol -> the publication its entry comes from
  asked    \* the ranking a caller of top has read, until it reads the entries

cacheVars == <<rank, latest, asked>>

\* A key that does not exist.
Nothing == [asOf |-> 0, results |-> << >>]

CacheInit ==
  /\ rank = Nothing
  /\ latest = << >>
  /\ asked = Nothing

\* Mutant: the entries of symbols that left the ranking are deleted.
PublishDroppingEntries(publication) ==
  \/ /\ DOMAIN publication.results = {}
     /\ UNCHANGED cacheVars
  \/ /\ DOMAIN publication.results # {}
     /\ rank' = publication
     /\ latest' = [s \in DOMAIN publication.results |-> publication]
     /\ UNCHANGED asked

\* Mutant: a session is published once.
PublishOncePerSession(publication) ==
  \/ /\ DOMAIN publication.results = {} \/ publication.asOf <= rank.asOf
     /\ UNCHANGED cacheVars
  \/ /\ DOMAIN publication.results # {} /\ publication.asOf > rank.asOf
     /\ rank' = publication
     /\ latest' = [s \in DOMAIN latest \cup DOMAIN publication.results |->
                     IF s \in DOMAIN publication.results THEN publication
                                                         ELSE latest[s]]
     /\ UNCHANGED asked

\* One MULTI ... EXEC; nothing at all when there are no results.
PublishRank(publication) ==
  \/ /\ DOMAIN publication.results = {}
     /\ UNCHANGED cacheVars
  \/ /\ DOMAIN publication.results # {}
     /\ rank' = publication
     /\ latest' = [s \in DOMAIN latest \cup DOMAIN publication.results |->
                     IF s \in DOMAIN publication.results THEN publication
                                                         ELSE latest[s]]
     /\ UNCHANGED asked

\* top: ZREVRANGE, then (if there is a ranking) MGET of the symbols' entries.
ReadRank ==
  /\ asked = Nothing
  /\ rank # Nothing
  /\ asked' = rank
  /\ UNCHANGED <<rank, latest>>

ReadEntries ==
  /\ asked # Nothing
  /\ asked' = Nothing
  /\ UNCHANGED <<rank, latest>>

=============================================================================
