------------------------------- MODULE MCMail -------------------------------
(* The alias store with small clocks and three configurations, beside it the *)
(* DNS cache and the questions of MailAlgorithms: a behaviour steps the       *)
(* store, or the cache, or asks one question.                                *)
EXTENDS AliasStore, DnsCache, MailAlgorithms

MCConfigs == {{<< <<"a", TRUE>>, "x">>},
              {<< <<"a", FALSE>>, "x">>, << <<"a", FALSE>>, "y">>},
              {<< <<"b", FALSE>>, "x">>}}
MCAddresses == {<<"a", TRUE>>, <<"a", FALSE>>, <<"b", TRUE>>}

MCAnswers == {{}, {1, 4}, {4}}

all == <<vars, dns, q>>
Untouched == ~up /\ facts = {} /\ config = {} /\ elapsed = 0 /\ back = 0

Asks == AskSearch \/ AskDate \/ AskSidecar \/ AskParts \/ AskScan \/ AskFetch \/ AskDecode \/ AskText
        \/ AskAuth \/ AskRoute \/ AskRoutes
        \/ AskQuery \/ AskSet \/ AskRequest \/ AskHttp \/ AskPop3 \/ AskDkim \/ AskFolders

\* The cache has made no step, nor has its clock.
CacheUntouched == now = 1 /\ victim = 0 /\ gen = 0 /\ served = {} /\ \A i \in Slot : cache[i] = Free

MCInit == Init /\ DnsInit /\ resolver = "one" /\ q = Unasked
MCNext == /\ q = Unasked
          /\ \/ CacheUntouched /\ Next /\ UNCHANGED <<dns, q>>
             \/ Untouched /\ DnsNext /\ UNCHANGED <<vars, q>>
             \/ Untouched /\ CacheUntouched /\ Asks /\ UNCHANGED <<vars, dns>>

MCSpec == MCInit /\ [][MCNext]_all

CopiesNext == q = Unasked /\ AskCopies /\ UNCHANGED <<vars, dns>>
CopiesSpec == MCInit /\ [][CopiesNext]_all
=============================================================================
