------------------------------- MODULE Startup -------------------------------
(***************************************************************************)
(* What the bridge makes of its environment before it listens:             *)
(* run_stratum_server (crates/csd-pool-bridge/src/lib.rs) with the flags   *)
(* of crates/csd-pool-config/src/lib.rs, and what the API makes of it.     *)
(*                                                                         *)
(* An environment e is a record of the variables the code reads; config is *)
(* the node list of the file CSD_POOL_CONFIG names, or NoConfig, or Broken *)
(* if the file cannot be read.  A URL is a record of its text without a    *)
(* trailing slash, whether it has one, and whether it starts with https.   *)
(* A path is absolute and fit for its use ("good"), absolute and not fit,  *)
(* relative, or not given.  Every operator returns Bad where the code      *)
(* returns an error.                                                       *)
(***************************************************************************)
EXTENDS Naturals, Sequences, FiniteSetsExt, TLC

Bad == "error"
Unset == "none"
NoConfig == <<"no config">>
Broken == <<"broken">>
NoUrl == [host |-> Unset, slash |-> FALSE, https |-> FALSE]
EmptyUrl == [host |-> "", slash |-> FALSE, https |-> FALSE]
BadUrl == [host |-> Bad, slash |-> FALSE, https |-> FALSE]

\* std::env::var(..) with is_empty
Given(u) == u \notin {NoUrl, EmptyUrl}

\* trim_end_matches('/')
normalized_node_url(u) == u.host

\* Modes compared with their spaces, and without.
IsLive(mode) == mode = "live"
IsLiveTrimmed(mode) == mode \in {"live", " live"}

\* The first node of the file that passes a test.
FirstNode(config, Test(_)) ==
  LET fit == {i \in DOMAIN config : Test(config[i])}
  IN  IF fit = {} THEN BadUrl ELSE config[Min(fit)].url

\* validate_pool_address: the variable before the file, whose address is a good one.
PoolAddress(e) ==
  IF e.address # Unset THEN e.address ELSE IF e.config = NoConfig THEN Bad ELSE "good"

\* live_template_config: the environment, even an empty URL, before the file, but the
\* file must be good.
live_template_config(e) ==
  IF e.config = Broken \/ PoolAddress(e) = Bad THEN BadUrl
  ELSE IF e.node_url # NoUrl THEN e.node_url
  ELSE IF e.config = NoConfig THEN BadUrl
  ELSE FirstNode(e.config, LAMBDA n : "template" \in n.roles)

template_provider_from_env(e) ==
  IF e.mode \in {Unset, "static"} THEN "static"
  ELSE IF ~ IsLive(e.mode) \/ live_template_config(e) = BadUrl THEN Bad
  ELSE IF e.parallel THEN "stateless" ELSE "live"

submit_node_url_from_env(e) ==
  IF Given(e.submit_url) THEN e.submit_url
  ELSE IF Given(e.node_url) THEN e.node_url
  ELSE IF e.config \in {NoConfig, Broken} THEN BadUrl
  ELSE FirstNode(e.config, LAMBDA n : "submit" \in n.roles)

secondary_submit_node_url_from_env(e, primary) ==
  IF Given(e.secondary_url) THEN e.secondary_url
  ELSE IF e.config \in {NoConfig, Broken} THEN BadUrl
  ELSE FirstNode(e.config, LAMBDA n : "submit" \in n.roles
                                      /\ normalized_node_url(n.url) # normalized_node_url(primary))

\* An independent sentinel has a URL of its own; else it is the secondary node.
Independent(e) == Given(e.sentinel_url)

select_tip_sentinel_node_url(e, primary) ==
  IF Independent(e) THEN e.sentinel_url ELSE secondary_submit_node_url_from_env(e, primary)

\* The token of the pool's nodes is for the secondary node only.
select_tip_sentinel_node_token(e) ==
  IF e.sentinel_token THEN "sentinel"
  ELSE IF Independent(e) THEN Bad
  ELSE IF e.node_token THEN "node" ELSE Unset

\* A certificate goes with an independent sentinel, which speaks https.
load_tip_sentinel_ca_pem(e, url) ==
  IF ~ Independent(e) THEN IF e.ca = Unset THEN Unset ELSE Bad
  ELSE IF url.https /\ e.ca = "good" THEN "good" ELSE Bad

NoSentinel == [url |-> NoUrl, token |-> Unset, ca |-> Unset]
BadSentinel == [NoSentinel EXCEPT !.url = BadUrl]

tip_sentinel_from_env(e) ==
  LET primary == live_template_config(e)
      url == select_tip_sentinel_node_url(e, primary)
      token == select_tip_sentinel_node_token(e)
      ca == load_tip_sentinel_ca_pem(e, url)
  IN  IF ~ e.sentinel THEN NoSentinel
      ELSE IF \/ ~ IsLive(e.mode) \/ BadUrl \in {primary, url} \/ Bad \in {token, ca}
              \/ normalized_node_url(url) = normalized_node_url(primary)
      THEN BadSentinel
      ELSE [url |-> url, token |-> token, ca |-> ca]

\* Mutant of require_template_submit_affinity: any submit node will do.
require_any_submit_node(e, submit) == submit # BadUrl

\* Jobs are node-local, so a live bridge submits to the node of its templates.
require_template_submit_affinity(e, submit) ==
  IsLive(e.mode) =>
    LET template == live_template_config(e)
    IN  template # BadUrl /\ normalized_node_url(template) = normalized_node_url(submit)

\* The only budget is one.
parallel_candidate_submit_budget(e) == IF e.budget \in {Unset, "1"} THEN "1" ELSE Bad

persistent_candidate_latch_path_from_env(e) == IF e.latch \in {Unset, "relative"} THEN Bad ELSE e.latch

persistent_candidate_state_dir_from_env(e) ==
  IF e.state_dir \in {Unset, "relative"} THEN Bad ELSE e.state_dir

\* PersistentCandidateLatch::new: a file of its own, or none yet, in a real directory
\* that others cannot write to.
UsableLatch(path) == IF path = "unfit" THEN Bad ELSE path

\* PersistentCandidateJournal::new: an existing real directory of its own.
validate_persistent_candidate_directory(path) == IF path = "unfit" THEN Bad ELSE path

NoControl == [mode |-> Unset, path |-> Unset]
BadControl == [mode |-> Bad, path |-> Unset]

secondary_candidate_control_from_env(e) ==
  LET latch == UsableLatch(persistent_candidate_latch_path_from_env(e))
      journal == validate_persistent_candidate_directory(persistent_candidate_state_dir_from_env(e))
  IN  IF e.control \in {Unset, "one_shot"} THEN
        IF parallel_candidate_submit_budget(e) = Bad \/ latch = Bad THEN BadControl
        ELSE [mode |-> "one_shot", path |-> latch]
      ELSE IF e.control = "continuous_bounded" THEN
        IF journal = Bad THEN BadControl ELSE [mode |-> "continuous_bounded", path |-> journal]
      ELSE BadControl

NoSubmitter == [primary |-> NoUrl, secondary |-> NoUrl, control |-> NoControl]
BadSubmitter == [NoSubmitter EXCEPT !.control = BadControl]

\* A live bridge must submit.
require_candidate_submission(e) == IsLiveTrimmed(e.mode) => e.submit

block_submitter_from_env(e) ==
  LET primary == submit_node_url_from_env(e)
      secondary == secondary_submit_node_url_from_env(e, primary)
      distinct == normalized_node_url(primary) # normalized_node_url(secondary)
      control == secondary_candidate_control_from_env(e)
  IN  IF ~ require_candidate_submission(e) THEN BadSubmitter
      ELSE IF ~ e.submit THEN NoSubmitter
      ELSE IF primary = BadUrl \/ ~ require_template_submit_affinity(e, primary) \/ e.legacy
      THEN BadSubmitter
      ELSE IF ~ e.parallel THEN [NoSubmitter EXCEPT !.primary = primary]
      ELSE IF secondary = BadUrl \/ ~ distinct \/ control = BadControl THEN BadSubmitter
      ELSE [primary |-> primary, secondary |-> secondary, control |-> control]

persistent_database_required(e) == e.required \/ IsLiveTrimmed(e.mode)

\* The file names the variable that has the database; without one, or with one that
\* cannot be read, it is the default variable.
database_url_from_env(e) ==
  LET variable == IF e.config \in {NoConfig, Broken} THEN "default" ELSE "named"
  IN  IF variable \in e.databases THEN variable ELSE Unset

require_persistent_database(e, database) ==
  IF database = Unset /\ persistent_database_required(e) THEN Bad ELSE database

mining_repository_from_env(e) == require_persistent_database(e, database_url_from_env(e))

\* The limits of abuse and of difficulty come from the file too, which must be good.
limits_from_env(e) == IF e.config = Broken THEN Bad ELSE "good"

run_stratum_server(e) ==
  LET provider == template_provider_from_env(e)
      sentinel == tip_sentinel_from_env(e)
      submitter == block_submitter_from_env(e)
      repository == mining_repository_from_env(e)
  IN  [started |-> /\ provider # Bad /\ sentinel # BadSentinel /\ submitter # BadSubmitter
                   /\ repository # Bad /\ limits_from_env(e) # Bad,
       provider |-> provider, sentinel |-> sentinel, submitter |-> submitter,
       repository |-> repository]

\* The API's repository_from_env: here a file that cannot be read is an error.
repository_from_env(e) ==
  IF e.config = Broken THEN Bad ELSE require_persistent_database(e, database_url_from_env(e))

-----------------------------------------------------------------------------
(* The environments of a run, and the property *)

CONSTANTS
  Files,           \* node lists a configuration file may have
  NodeUrls, SubmitUrls, SecondaryUrls, SentinelUrls

VARIABLE environment

\* A bridge with two nodes and a sentinel, which would start with the first file.
Complete ==
  [mode |-> "live", config |-> NoConfig, address |-> Unset, node_url |-> NoUrl,
   submit_url |-> NoUrl, secondary_url |-> NoUrl, submit |-> TRUE, legacy |-> FALSE,
   parallel |-> TRUE, control |-> Unset, budget |-> Unset, latch |-> "good", state_dir |-> "good",
   sentinel |-> FALSE, sentinel_url |-> NoUrl, sentinel_token |-> TRUE, node_token |-> TRUE,
   ca |-> "good", databases |-> {"default", "named"}, required |-> FALSE]

Modes == {Unset, "static", "live", " live", "other"}
Configs == Files \cup {NoConfig, Broken}
Paths == {Unset, "relative", "unfit", "good"}

\* Every way to choose the nodes; to control the second node; to watch the tip; and to
\* choose address and database.
Environments ==
  {r @@ Complete :
     r \in [mode : Modes, config : Configs, node_url : NodeUrls, submit_url : SubmitUrls,
            secondary_url : SecondaryUrls, submit : BOOLEAN, legacy : BOOLEAN, parallel : BOOLEAN]
        \cup [mode : {"static", "live"}, config : Files, secondary_url : SecondaryUrls,
              control : {Unset, "one_shot", "continuous_bounded", "other"},
              budget : {Unset, "1", "other"}, latch : Paths, state_dir : Paths]
        \cup [config : Configs, node_url : NodeUrls, secondary_url : SecondaryUrls,
              sentinel : {TRUE}, sentinel_url : SentinelUrls, sentinel_token : BOOLEAN,
              node_token : BOOLEAN, ca : Paths]
        \cup [mode : Modes, config : Configs, address : {Unset, "good", Bad}, parallel : {FALSE},
              databases : SUBSET {"default", "named"}, required : BOOLEAN]}

\* The claim below, of an environment, the bridge it starts and the node of its templates.
SafeStart(e, b, template) ==
  LET live == b.provider \in {"live", "stateless"}
      two == b.submitter.secondary # NoUrl
      watched == b.sentinel # NoSentinel
  IN  b.started =>
        /\ b.repository = repository_from_env(e)
        /\ live => /\ b.repository # Unset
                   /\ b.submitter.primary.host = template.host
                   /\ two => b.provider = "stateless"
        /\ two => /\ b.submitter.secondary.host # b.submitter.primary.host
                  /\ b.submitter.control.path = "good"
        /\ watched => /\ live /\ b.sentinel.url.host # template.host
                      /\ b.sentinel.token = "node" =>
                           \/ b.sentinel.url = e.secondary_url
                           \/ \E i \in DOMAIN e.config : b.sentinel.url = e.config[i].url

\* However environment and file are combined, a bridge that starts live keeps its
\* shares in a database, the one the API of the same environment uses, and sends its
\* candidates to the node its jobs come from; a second node is another one, reached
\* only with the whole templates at hand and under a control that survives a restart.
\* So is the one that watches the tip, which never gets the token of the pool's own
\* nodes if it is none of them.
StartIsSafe ==
  SafeStart(environment, run_stratum_server(environment), live_template_config(environment))
=============================================================================
