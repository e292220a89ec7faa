--------------------------- MODULE ToolSelection ---------------------------
(***************************************************************************)
(* Which tools of the run's catalog are shown to the model (src/main.rs,   *)
(* select_model_tools): the core tools that are there, tools to discover   *)
(* others with if the toolbox is not there, or, where that gives nothing,  *)
(* the catalog itself; never more than a limit.  A tool is its name and    *)
(* its description.                                                        *)
(***************************************************************************)
EXTENDS Naturals, SequencesExt, Iterators

CONSTANTS
    Catalogs,       \* the sequences of tools that the control plane may send
    Limits          \* the values of max_tool_definitions

Tools == UNION {ToSet(catalog) : catalog \in Catalogs}

ASSUME LimitsAssumption == Limits \subseteq Nat \ {0}
ASSUME CatalogsAssumption == \A catalog \in Catalogs : catalog \in Seq(Tools)

VARIABLES
    toolCatalog,
    limit,
    offered         \* what the model is shown; empty before the selection

selectionVars == <<toolCatalog, limit, offered>>

ToolboxToolName == "toolbox"
CoreDirectToolNames ==
    <<ToolboxToolName, "container_start", "container_status",
      "container_commit", "container_stop", "create_repository", "repo_list",
      "repo_status", "repo_switch", "file_read", "file_write",
      "file_write_binary", "file_list", "file_delete", "file_mkdir",
      "file_rename", "file_copy", "runtime_exec", "runtime_status",
      "web_fetch", "create_artifact", "search", "remember", "recall",
      "set_reminder", "info_unit_search", "spawn_agent", "wait_agent",
      "memory_graph_recall", "store_search">>
FallbackDiscoveryToolNames ==
    <<"capability_search", "capability_families", "capability_describe",
      "capability_invoke">>
HiddenModelTools == {"skill_context", "skill_catalog", "skill_describe"}

Names(tools) == {tools[i].name : i \in DOMAIN tools}

-----------------------------------------------------------------------------
PushTool(selected, tool) ==
    IF Len(selected) >= limit \/ tool.name \in Names(selected)
        THEN selected ELSE Append(selected, tool)

\* The first tool of a name, if the catalog has it.
PushToolByName(selected, name) ==
    LET found == FirstAt(toolCatalog,
                         {i \in DOMAIN toolCatalog : toolCatalog[i].name = name})
    IN IF found = <<>> THEN selected ELSE PushTool(selected, Head(found))

PushAll(names) == FoldLeft(PushToolByName, <<>>, names)

HasToolbox == ToolboxToolName \in Names(toolCatalog)

\* Slip: core tools are enough, and the toolbox is the last of them.
DirectToolsOnly == PushAll(Tail(CoreDirectToolNames) \o <<ToolboxToolName>>)

\* The second loop goes on with what the first has selected.
DirectTools ==
    PushAll(IF HasToolbox THEN CoreDirectToolNames
            ELSE CoreDirectToolNames \o FallbackDiscoveryToolNames)

PushVisible(selected, tool) ==
    IF tool.name \in HiddenModelTools THEN selected ELSE PushTool(selected, tool)

FullCatalog == FoldLeft(PushVisible, <<>>, toolCatalog)

SelectModelTools == IF DirectTools = <<>> THEN FullCatalog ELSE DirectTools

-----------------------------------------------------------------------------
SelectionInit == toolCatalog \in Catalogs /\ limit \in Limits /\ offered = <<>>

Select ==
    /\ offered' = SelectModelTools
    /\ UNCHANGED <<toolCatalog, limit>>

SelectionNext == Select

SelectionSpec == SelectionInit /\ [][SelectionNext]_selectionVars

-----------------------------------------------------------------------------
(* Properties *)

\* What the provider is sent is a tool list it takes: within the limit, each
\* name once, each tool the first of its name in the catalog, which is the one
\* that a call of that name is about (main.rs:955-979).
OfferedAsListed ==
    /\ Len(offered) <= limit
    /\ \A i, j \in DOMAIN offered : offered[i].name = offered[j].name => i = j
    /\ \A i \in DOMAIN offered : \E j \in DOMAIN toolCatalog :
           /\ offered[i] = toolCatalog[j]
           /\ \A k \in 1..(j - 1) : toolCatalog[k].name # toolCatalog[j].name

\* The tools for skills are not for the model to see, in none of the ways a
\* tool gets to it (main.rs:951-953).
HiddenStayHidden == Names(offered) \cap HiddenModelTools = {}

\* No tool is out of reach without need: a tool that the model is not shown, and
\* that is not hidden, can be found by the toolbox, which no limit cuts off, or,
\* in a catalog without it, by tools for discovery that it is shown, unless the
\* limit is reached before them or there are none (main.rs:919-946).
NothingOutOfReach ==
    offered # <<>> =>
        \A name \in Names(toolCatalog) \ (Names(offered) \cup HiddenModelTools) :
            \/ HasToolbox /\ ToolboxToolName \in Names(offered)
            \/ /\ ~HasToolbox
               /\ \/ Names(offered) \cap Range(FallbackDiscoveryToolNames) # {}
                  \/ Len(offered) = limit
                  \/ Names(toolCatalog) \cap Range(FallbackDiscoveryToolNames) = {}

\* The place of a name in our own order.
Order == CoreDirectToolNames \o FallbackDiscoveryToolNames
Place(name) == CHOOSE n \in DOMAIN Order : Order[n] = name

\* With a core tool in the catalog, the offer depends on what the catalog has
\* and not on its order, so that a run that is started again shows the model
\* the same list (main.rs:926-928): tools appear in the order of the core list.
OrderIsOurs ==
    (offered # <<>> /\ Names(toolCatalog) \cap Range(CoreDirectToolNames) # {}) =>
        \A i, j \in DOMAIN offered :
            i < j => Place(offered[i].name) < Place(offered[j].name)

\* Whatever the catalog and the limit, what the model is shown can be sent,
\* hides what it must, lets the model find the rest, and is a list of our own
\* making (main.rs:914-979).
OfferIsSound ==
    OfferedAsListed /\ HiddenStayHidden /\ NothingOutOfReach /\ OrderIsOurs
=============================================================================
