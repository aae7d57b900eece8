CONSTANT MaxEvents = 4
SPECIFICATION SessionSpec
INVARIANTS SessionInv ShownAnswerIsSaved
PROPERTY QuestionSettles
