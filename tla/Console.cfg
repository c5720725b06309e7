CONSTANTS
    t1 = t1
    t2 = t2
    t3 = t3
    p1 = p1
    home = home
    Root = home
    Threads <- MCThreads
    Projects <- MCProjects
    Words <- MCWords
    Scenes <- MCScenes
    Prompt <- MCPrompt
SPECIFICATION UiSpec
CHECK_DEADLOCK FALSE
INVARIANT RowsAreCurrent
INVARIANT PinnedIsCurrent
INVARIANT EditorAgrees
INVARIANT OneBirth
