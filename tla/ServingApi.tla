----------------------------- MODULE ServingApi -----------------------------
(***************************************************************************)
(* The services behind the routes of the API (apps/api.py, _AppState):     *)
(* accounts and keys, organisations and quotas, workspaces, portfolios and *)
(* searches, the document corpus, the model gateway. The request threads   *)
(* are theirs in common; of state they share only organisations, so a      *)
(* behaviour is about one service, chosen at the start.                    *)
(***************************************************************************)
EXTENDS Accounts, Quotas, Records, Corpus, Llm

CONSTANT Services

VARIABLE service

apiVars == <<accountVars, quotaVars, recordVars, corpusVars, llmVars, service>>

ApiInit ==
  /\ service \in Services
  /\ IF service = "keys" THEN KeysInit ELSE SigningInit
  /\ QuotasInit /\ RecordsInit /\ CorpusInit /\ LlmInit
  /\ service # "own" => universe = <<>>
  /\ service # "llm" => input.current.sections = <<>> /\ input.previous = <<>>

ApiNext ==
  \/ service = "signing" /\ SigningNext
     /\ UNCHANGED <<usage, calls, checked, recordVars, corpusVars, llmVars, service>>
  \/ service = "keys" /\ KeysNext
     /\ UNCHANGED <<usage, calls, checked, recordVars, corpusVars, llmVars, service>>
  \/ service = "quotas" /\ QuotasNext
     /\ UNCHANGED <<users, sessions, apiKeys, issued, honoured, audit, minted, requests, world,
                    recordVars, corpusVars, llmVars, service>>
  \/ service = "team" /\ TeamNext /\ UNCHANGED <<accountVars, quotaVars, corpusVars, llmVars, service>>
  \/ service = "own" /\ OwnNext /\ UNCHANGED <<accountVars, quotaVars, corpusVars, llmVars, service>>
  \/ service = "corpus" /\ CorpusNext /\ UNCHANGED <<accountVars, quotaVars, recordVars, llmVars, service>>
  \/ service = "llm" /\ LlmNext /\ UNCHANGED <<accountVars, quotaVars, recordVars, corpusVars, service>>

ApiSpec == ApiInit /\ [][ApiNext]_apiVars
=============================================================================
