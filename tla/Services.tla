------------------------------ MODULE Services ------------------------------
(***************************************************************************)
(* The components that share no state with each other, one at a time:      *)
(* focus chooses the one a behaviour is about, the others keep their       *)
(* initial state.  The upload gates keep none: their verdicts are an       *)
(* invariant of their one state.                                           *)
(***************************************************************************)
EXTENDS Mail, UploadGate, Pipelines, Search, Discover, Browser, Storage, Webhooks, Limiter,
        Chunks

VARIABLE focus

Focuses == {"mail", "gate", "pipelines", "search", "discover", "browser", "storage",
            "webhooks", "limiter", "chunks"}
serviceVars == <<focus, mailVars, pipeVars, searchVars, discoverVars, browserVars,
                 storageVars, webhookVars, limiterVars, document>>

\* what may stand at the gate
UploadRequests ==
    [endpoint : Implemented \cup UnbuiltRoutes, ext : DeclaredExts \cup {"", ".dat"},
     content : Contents, options : Options, large : BOOLEAN]

\* initial choices are those of the component in focus
Calm ==
    /\ focus # "mail" => family = "billing"
    /\ focus # "discover" => mode = [sources |-> "hybrid", js |-> "auto"]
    /\ focus # "storage" => ~storagePlan
ServicesInit ==
    /\ focus \in Focuses
    /\ MailInit /\ PipeInit /\ SearchInit /\ DiscoverInit /\ BrowserInit /\ StorageInit
    /\ WebhookInit /\ LimiterInit /\ ChunkInit
    /\ Calm

ServicesNext ==
    \/ /\ focus = "mail" /\ MailNext
       /\ UNCHANGED <<focus, pipeVars, searchVars, discoverVars, browserVars, storageVars,
                       webhookVars, limiterVars, document>>
    \/ /\ focus = "pipelines" /\ PipeNext
       /\ UNCHANGED <<focus, mailVars, searchVars, discoverVars, browserVars, storageVars,
                       webhookVars, limiterVars, document>>
    \/ /\ focus = "search" /\ SearchNext
       /\ UNCHANGED <<focus, mailVars, pipeVars, discoverVars, browserVars, storageVars,
                       webhookVars, limiterVars, document>>
    \/ /\ focus = "discover" /\ DiscoverNext
       /\ UNCHANGED <<focus, mailVars, pipeVars, searchVars, browserVars, storageVars,
                       webhookVars, limiterVars, document>>
    \/ /\ focus = "browser" /\ BrowserNext
       /\ UNCHANGED <<focus, mailVars, pipeVars, searchVars, discoverVars, storageVars,
                       webhookVars, limiterVars, document>>
    \/ /\ focus = "storage" /\ StorageNext
       /\ UNCHANGED <<focus, mailVars, pipeVars, searchVars, discoverVars, browserVars,
                       webhookVars, limiterVars, document>>
    \/ /\ focus = "webhooks" /\ WebhookNext
       /\ UNCHANGED <<focus, mailVars, pipeVars, searchVars, discoverVars, browserVars,
                       storageVars, limiterVars, document>>
    \/ /\ focus = "limiter" /\ LimiterNext
       /\ UNCHANGED <<focus, mailVars, pipeVars, searchVars, discoverVars, browserVars,
                       storageVars, webhookVars, document>>
    \/ /\ focus = "chunks" /\ ChunkNext
       /\ UNCHANGED <<focus, mailVars, pipeVars, searchVars, discoverVars, browserVars,
                       storageVars, webhookVars, limiterVars>>

ServicesSpec == ServicesInit /\ [][ServicesNext]_serviceVars

-----------------------------------------------------------------------------
(* Properties *)

\* Every request the upload gates let through is one its converter can take, and none is
\* refused only for a name that says nothing (convert.forward_to_backend).
UploadsAgree == focus = "gate" => \A r \in UploadRequests : GatesAgree(r)
=============================================================================
