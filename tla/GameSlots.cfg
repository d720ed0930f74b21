SPECIFICATION Spec
CONSTANTS
    NSlots = 4
    Games <- MCGames
    Flashes <- MCFlashes
    Erasures <- MCErasures
INVARIANTS ComesBack ListedLikeSaved
